---- MODULE Spec2Model ----
(***************************************************************************)
(* Aerofly FS4 bridge (aerofly_bridge_dll.cpp): the shared-memory snapshot *)
(* written by the host tick, the command queues filled by the server       *)
(* threads and drained by the host tick, and the translation of commands   *)
(* into simulator messages.                                                *)
(*                                                                         *)
(* Doubles are modelled as <<kind, n>>: <<"fin", n>> is the finite value   *)
(* n/10, <<"nan", 0>> is NaN and <<"inf", s>> is s * infinity.             *)
(***************************************************************************)
EXTENDS Integers, Sequences, FiniteSets, TLC

\* ---------------------------------------------------------------- bounds
\* ticks, messages per tick and commands explored when the snapshot is studied
MaxTicks == 2
MaxMsgs == 2
SnapCmds == 1
\* ticks, messages per tick and commands explored when the command path is studied
CmdTicks == 2
CmdMsgs == 1
MaxCmds == 3
\* ticks, messages per tick, commands and read attempts explored with a reader
ReaderTicks == 1
ReaderMsgs == 1
ReaderCmds == 2
MaxReads == 1
AccessTicks == 1
AccessMsgs == 1
AccessCmds == 2
LifeTicks == 1
LifeMsgs == 1
LifeCmds == 1
LifeConns == 1
MaxShuts == 2
TickTicks == 2
TickShuts == 1
MaxCapacity == 3
CastTicks == 2
CastConns == 1
SlowTicks == 2
SlowConns == 2
WireTicks == 2
WireConns == 1
StallCmds == 2
StallConns == 1
WsTicks == 1
WsConns == 1
WsFrames == 2
MaxLookups == 2
StepTicks == 2
StepCmds == 3
\* string messages explored, and the longest string the simulator sends
MaxStrings == 2
MaxStringLen == 9
\* connections made to the command port
PortConns == 2
\* ticks, connections per port and chunks sent when the threads are studied
DocTicks == 2
DocMsgs == 1
DocCmds == 1
SimpleTicks == 2
SimpleMsgs == 2
ChunkFrames == 2
ChunkBytes == 4
InstTicks == 1
InstConns == 1
InstShuts == 1
InstInits == 1
ThreadTicks == 1
ThreadConns == 1
ThreadChunks == 1

\* ---------------------------------------------------------------- doubles
Fin(n) == <<"fin", n>>
NaN == <<"nan", 0>>
PInf == <<"inf", 1>>
NInf == <<"inf", 0 - 1>>
Zero == Fin(0)
\* 1.0 in tenths: the upper clamp limit of ProcessStepControl
One == 10

IsFinite(v) == v[1] = "fin"
IsNaN(v) == v[1] = "nan"

\* v < 0.0 and v > 1.0 as IEEE-754 compares them: false for NaN
LessThanZero(v) == IF v[1] = "fin" THEN v[2] < 0 ELSE v[1] = "inf" /\ v[2] < 0
GreaterThanOne(v) == IF v[1] = "fin" THEN v[2] > One ELSE v[1] = "inf" /\ v[2] > 0

\* a + b as IEEE-754 adds them
AddDouble(a, b) ==
    IF IsNaN(a) \/ IsNaN(b) THEN NaN
    ELSE IF IsFinite(a) /\ IsFinite(b) THEN Fin(a[2] + b[2])
    ELSE IF IsFinite(a) THEN b
    ELSE IF IsFinite(b) THEN a
    ELSE IF a = b THEN a ELSE NaN

\* uint32_t update_counter: the value hi * 2^16 + lo is modelled as <<hi, lo>>
\* (2^32 is not a number TLC can hold)
HalfWord == 65536
CounterZero == <<0, 0>>
CounterMax == <<HalfWord - 1, HalfWord - 1>>

\* ---------------------------------------------------------------- registry
\* VariableIndex entries of the variables modelled
VarIndex ==
    {"AIRCRAFT_ALTITUDE", "C172_TRIM_WHEEL", "C172_LEFT_DOOR", "C172_LEFT_DOOR_HANDLE",
     "C172_LEFT_WINDOW"}

\* Message ids (the string hash of the message name, an opaque equality key)
IdAltitude == "Aircraft.Altitude"
IdTrim == "Controls.Trim"
IdLeftDoor == "Doors.Left"
IdLeftDoorHandle == "Doors.LeftHandle"
IdLeftWindow == "Windows.Left"
IdThrottle == "Controls.Throttle"
IdUnknown == "Totally.Unknown"

\* The flag each message is declared with in MESSAGE_LIST
DeclaredFlag(id) ==
    IF id \in {IdLeftDoor, IdLeftDoorHandle, IdLeftWindow} THEN "Step" ELSE "Value"

\* The access each message is declared with in MESSAGE_LIST
DeclaredAccess(id) ==
    CASE id = IdAltitude -> "Read"
      [] id \in {IdThrottle, IdTrim, IdLeftDoorHandle} -> "Write"
      [] id \in {IdLeftDoor, IdLeftWindow} -> "ReadWrite"

\* Variables whose primary flag is step (AIRCRAFT_SPECIFIC_MESSAGE_LIST)
StepVars == {"C172_TRIM_WHEEL", "C172_LEFT_DOOR", "C172_LEFT_DOOR_HANDLE", "C172_LEFT_WINDOW"}

\* A simulator message: id, flag, double value; throws: reading it raises
\* (src: which command it was translated from, <<"host", 0>> for the simulator's own)
Message(id, flag, val) ==
    [id |-> id, dtype |-> "Double", flag |-> flag, val |-> val, throws |-> FALSE, src |-> <<"host", 0>>]
\* The default-constructed tm_external_message (data type None)
EmptyMessage ==
    [id |-> "", dtype |-> "None", flag |-> "None", val |-> Zero, throws |-> FALSE, src |-> <<"none", 0>>]

\* ---------------------------------------------------------------- snapshot
VARIABLES data_valid, update_counter, timestamp_us, fields, all_variables

snapVars == <<data_valid, update_counter, timestamp_us, fields, all_variables>>

\* memset(pData, 0, sizeof(AeroflyBridgeData))
ZeroSlots == [i \in VarIndex |-> Zero]

\* ProcessStepControl: the value stored for `message` when the field holds `current`
ProcessStepControl(message, current) ==
    LET raw == IF message.flag = "Step" THEN AddDouble(current, message.val)
               ELSE message.val
        low == IF LessThanZero(raw) THEN Zero ELSE raw
    IN IF GreaterThanOne(low) THEN Fin(One) ELSE low

\* Handlers registered in message_handlers (InitializeHandlers)
HashMapIds == {IdAltitude, IdLeftWindow}
\* Messages handled by the if-chain of ProcessMessage
FallbackIds == {IdTrim, IdLeftDoor, IdLeftDoorHandle}

\* The variable a message id is stored in
TargetOf(id) ==
    CASE id = IdAltitude -> "AIRCRAFT_ALTITUDE"
      [] id = IdLeftWindow -> "C172_LEFT_WINDOW"
      [] id = IdTrim -> "C172_TRIM_WHEEL"
      [] id = IdLeftDoor -> "C172_LEFT_DOOR"
      [] id = IdLeftDoorHandle -> "C172_LEFT_DOOR_HANDLE"

\* The value a handler stores for message m when its struct field holds cur
StoredValue(m, cur) ==
    IF m.id \in {IdLeftWindow, IdLeftDoor, IdLeftDoorHandle} THEN ProcessStepControl(m, cur)
    ELSE m.val

\* ProcessMessage: the struct fields after message m (a handler that throws
\* is caught and stores nothing; an unknown hash stores nothing)
FieldsAfter(f, m) ==
    IF m.id \in (HashMapIds \cup FallbackIds) /\ ~m.throws
    THEN [f EXCEPT ![TargetOf(m.id)] = StoredValue(m, f[TargetOf(m.id)])]
    ELSE f

\* ProcessMessage: all_variables[] after message m
SlotsAfter(f, a, m) ==
    IF m.id \in (HashMapIds \cup FallbackIds) /\ ~m.throws
    THEN [a EXCEPT ![TargetOf(m.id)] = StoredValue(m, f[TargetOf(m.id)])]
    ELSE a

\* ---------------------------------------------------------------- commands
\* A command string, by what ParseCommand finds in it: kind "ok" has both fields
\* and a number; "nojson" has no {...}; "nofields" lacks "variable" or "value";
\* "badvalue" has a value std::stod rejects. src tags the command: <<channel, n>>.
Command(kind, var, val) == [kind |-> kind, var |-> var, val |-> val, src |-> <<"none", 0>>]

\* Names with an entry in command_handlers (InitializeCommandHandlers)
CommandHandlerNames == {IdThrottle}
\* Names accepted by the Process*Variables helpers ParseCommand falls back to
CommandFallbackNames == {IdAltitude, IdLeftDoor, IdLeftWindow}

\* A ParseCommand that builds a message for any variable name it is given
ParseCommandAnyName(c) ==
    IF c.kind # "ok" THEN EmptyMessage
    ELSE [id |-> c.var, dtype |-> "Double", flag |-> DeclaredFlag(c.var), val |-> c.val,
          throws |-> FALSE, src |-> c.src]

\* ParseCommand: the message for one command, EmptyMessage when it is dropped
ParseCommand(c) ==
    IF c.kind # "ok" THEN EmptyMessage
    ELSE IF c.var \in (CommandHandlerNames \cup CommandFallbackNames)
    THEN [id |-> c.var, dtype |-> "Double", flag |-> DeclaredFlag(c.var), val |-> c.val,
          throws |-> FALSE, src |-> c.src]
    ELSE EmptyMessage

\* ProcessCommands: the messages of a batch of commands, in order
RECURSIVE ProcessCommands(_)
ProcessCommands(cmds) ==
    IF cmds = <<>> THEN <<>>
    ELSE LET msg == ParseCommand(Head(cmds))
         IN (IF msg.dtype # "None" THEN <<msg>> ELSE <<>>) \o ProcessCommands(Tail(cmds))

\* An Update that puts the WebSocket commands in front of the TCP commands
MergeCommandsWsFirst(tcp, ws) == ws \o tcp

\* AeroflyBridge::Update: TCP commands, then the WebSocket commands appended
MergeCommands(tcp, ws) == tcp \o ws

\* A loop iteration that pops twice
PopTwice(q) == IF Len(q) > 1 THEN Tail(Tail(q)) ELSE Tail(q)

\* GetPendingCommands, one loop iteration: the queue after front() and pop()
PopFront(q) == Tail(q)
\* A push at the front of the queue
PushFront(q, c) == <<c>> \o q

\* ProcessCommand / ProcessWebSocketFrames: command_queue.push
PushBack(q, c) == Append(q, c)

\* VariableMapper: the names registered in name_to_index
RegistryNames == {IdAltitude, IdThrottle, IdTrim, IdLeftDoor, IdLeftDoorHandle, IdLeftWindow}

\* ---------------------------------------------------------------- state
Chan == {"tcp", "ws"}

VARIABLES
    pc,               \* where the host thread is inside the tick ("idle" between ticks)
    num_received,     \* message_list_received_num_messages of the tick
    msgIdx,           \* messages of the tick applied so far by UpdateData
    commands,         \* Update's local vector of drained command strings
    command_messages, \* Update's local vector of translated messages (sent_messages)
    stepIdx,          \* position of the step-control loop in command_messages
    clock,            \* microseconds the performance counter has counted
    ticks,            \* host ticks begun
    ws_enabled,       \* AeroflyBridge::ws_enabled
    command_queue,    \* per server: std::queue<std::string>
    command_mutex,    \* per server: who holds command_mutex
    srv_pc,           \* per server thread: "idle", or "push" inside ProcessCommand
    srv_cmd,          \* per server thread: the command string being enqueued
    cmdsLeft,         \* commands the clients may still send
    rd_pc,            \* external reader: position in its read protocol
    rd,               \* external reader: header samples and slot values read
    readsLeft,        \* read attempts the reader may still start
    env,              \* what the simulator and the clients may send
    out_capacity,     \* message_list_sent_byte_stream_size_max of the tick
    sent_size,        \* message_list_sent_byte_stream_size (the host's variable)
    sent_num,         \* message_list_sent_num_messages (the host's variable)
    g_bridge,         \* the global bridge pointer: "null" or "obj"
    initialized,      \* AeroflyBridge::initialized
    pData,            \* SharedMemoryInterface::pData: "null" or "mapped"
    tcp_server,       \* TCPServerInterface: running, server_socket, winsock_initialized, threads
    ws_server,        \* WebSocketServerInterface: running, server_socket, server_thread
    client_sockets,   \* per server: the connected broadcast clients
    acc_pc,           \* TCP ServerLoop: "idle", or "accepted" between accept() and push_back
    conns,            \* per server: connections accepted so far
    closed,           \* per server: the accepted sockets it has closed
    recv_buffers,     \* WebSocket: per client, the bytes received and not yet parsed
    hs,               \* WebSocket ServerLoop: the handshake it is in (NoHandshake if none)
    inflight,         \* per WebSocket client: bytes it has sent that recv has not returned yet
    \* history variables
    shook,            \* per WebSocket connection: its request and how the handshake ended
    wsSent,           \* per WebSocket client: the frames it has sent, in order
    wsLog,            \* per WebSocket client: what ProcessWebSocketFrames did with each frame
    lookups,          \* the VariableMapper::GetIndex calls made, with their results
    aircraft_nearest_airport_id, \* AeroflyBridgeData: the bytes of the field of that name
    lastString,       \* the string messages applied so far, and the last one
    cmd_client,       \* CommandLoop: the command connection at hand, as its two ends see it
    cmdLog,           \* per command connection: bytes written, strings enqueued, closed or not
    tpc,              \* per thread: where it is, as <<server, label>>
    mutexes,          \* per mutex: the thread that holds it, or "free"
    local,            \* per thread: its local variables
    sock,             \* per socket handle: open or not, closesocket calls, bytes to read, peer
    backlog,          \* per port: connections waiting to be accepted
    budget,           \* ticks, Shutdown calls, connections and chunks still to come
    running,          \* per server: its running flag
    server_socket,    \* per server: its listening socket
    \* history variable
    syscalls,         \* per thread: its last blocking system calls, and the mutexes it held
    last_broadcast_us, \* per server: the member of that name
    cast,             \* per server: what its BroadcastData call of the current tick did
    lastAt,           \* per server: clock at its last broadcast (Unset before the first)
    wire,             \* per TCP data client: the bytes its socket has taken, in order
    wsa_refs,         \* Winsock: WSAStartup calls not yet balanced by WSACleanup
    phase,            \* "none", "shutdown" (AeroflyBridge::Shutdown) or "delete" (delete g_bridge)
    lifeLeft,         \* init: the host has yet to call Init (it does once); shuts: Shutdown calls left
    \* history variables
    init,             \* the last Initialize call: what succeeded and what it returned
    leaked,           \* the bridge objects g_bridge no longer points to and nobody deleted
    lifeLog,          \* joins, unmaps and socket-library releases so far, in order
    \* history variables
    writeLog,         \* the writes of the current UpdateData call, in order
    ctrAtCall,        \* update_counter when UpdateData was entered
    atUpdateEnd,      \* <<fields, all_variables>> as the last UpdateData left them
    atTickEnd,        \* <<all_variables>> as the last tick's command step left it
    pushed,           \* per channel: commands enqueued so far
    atLock,           \* per channel: value of pushed when the host last locked the queue
    handed,           \* tags of the commands handed to ProcessCommands, all ticks
    hostOut           \* tags of the messages returned to the host, all ticks

hostVars == <<pc, num_received, msgIdx, commands, command_messages, stepIdx, clock, ticks>>
queueVars == <<ws_enabled, command_queue, command_mutex>>
serverVars == <<srv_pc, srv_cmd, cmdsLeft>>
readerVars == <<rd_pc, rd, readsLeft>>
historyVars == <<writeLog, ctrAtCall, atUpdateEnd, atTickEnd, pushed, atLock, handed, hostOut>>
outVars == <<out_capacity, sent_size, sent_num>>
lifeVars == <<g_bridge, initialized, pData, tcp_server, ws_server, wsa_refs, phase, lifeLeft,
              init, leaked, lifeLog>>
castVars == <<last_broadcast_us, cast, lastAt, wire>>
wsVars == <<hs, inflight, shook, wsSent, wsLog>>
netVars == <<client_sockets, acc_pc, conns, closed, recv_buffers, wsVars, castVars>>
stringVars == <<aircraft_nearest_airport_id, lastString>>
portVars == <<cmd_client, cmdLog>>
threadVars == <<tpc, mutexes, local, sock, backlog, budget, running, server_socket, syscalls>>
inputVars == <<env, lookups, stringVars, portVars, threadVars>>
envVars == <<inputVars, lifeVars, netVars>>
vars == <<snapVars, hostVars, queueVars, serverVars, readerVars, envVars, outVars, historyVars>>

\* ---------------------------------------------------------------- inputs
\* Messages the simulator may send in a tick
HostMessages ==
    { Message(IdAltitude, "Value", Fin(25)),
      Message(IdAltitude, "Value", NaN),
      Message(IdLeftDoor, "Step", Fin(3)),
      Message(IdLeftDoor, "Step", Fin(0 - 10)),
      Message(IdLeftWindow, "Step", Fin(6)),
      Message(IdLeftWindow, "Value", PInf),
      Message(IdTrim, "Step", Fin(25)),
      Message(IdUnknown, "Value", Fin(3)),
      [Message(IdLeftDoor, "Step", Fin(6)) EXCEPT !.throws = TRUE] }

\* Command strings a client may send
CmdLeftDoor == Command("ok", IdLeftDoor, Fin(6))
CmdLeftWindow == Command("ok", IdLeftWindow, Fin(6))
CmdThrottle == Command("ok", IdThrottle, Fin(3))
CmdUnknown == Command("ok", IdUnknown, Fin(10))
CmdAltitude == Command("ok", IdAltitude, Fin(25))
CmdNoJson == Command("nojson", "", Zero)
CmdLeftDoorBack == Command("ok", IdLeftDoor, Fin(0 - 4))
CmdLeftDoorHandle == Command("ok", IdLeftDoorHandle, Fin(6))

ClientCommands == {CmdLeftDoor, CmdThrottle, CmdUnknown}

\* What the host's output variables hold until the tick entry point assigns them
Unset == 0 - 1
\* char aircraft_nearest_airport_id[8]
AirportIdBytes == 8
\* char buffer[1024] of CommandLoop
CommandBufferBytes == 1024
\* CommandLoop has no accepted client, and none is waiting to be accepted
NoClient == [state |-> "none", todo |-> <<>>, inflight |-> <<>>, eof |-> FALSE]
\* No string message has been applied yet
NoString == [n |-> 0, dtype |-> "None", val |-> <<>>, throws |-> FALSE]

\* TCPServerInterface as constructed, and after a successful Start
TcpStopped == [running |-> FALSE, server_socket |-> "invalid", winsock_initialized |-> FALSE,
               server_thread |-> "none", command_thread |-> "none"]
TcpStarted == [running |-> TRUE, server_socket |-> "open", winsock_initialized |-> TRUE,
               server_thread |-> "running", command_thread |-> "running"]
\* WebSocketServerInterface as constructed, and after a successful Start
WsStopped == [running |-> FALSE, server_socket |-> "invalid", server_thread |-> "none"]
WsStarted == [running |-> TRUE, server_socket |-> "open", server_thread |-> "running"]

NoCommand == Command("none", "", Zero)
\* AEROFLY_BRIDGE_BROADCAST_MS is not in the environment (GetEnvironmentVariableA returns 0)
NotSet == <<>>
NoSnapshot == <<>>
\* The WebSocket ServerLoop is not inside HandleWebSocketHandshake
NoHandshake == [client |-> 0, request |-> <<>>, pending |-> <<>>]
\* No BroadcastData call yet
NoCast == [did |-> "none", payload |-> <<>>, snapshot |-> {}, tried |-> {}, outcome |-> <<>>]
RdIdle == [dv |-> 0, ctr |-> CounterZero, door |-> Zero, window |-> Zero]

\* ---------------------------------------------------------------- initial states
\* After SharedMemoryInterface::Initialize and AeroflyBridge::Initialize, the
\* client vectors apart
InitBridge ==
    /\ fields = ZeroSlots
    /\ all_variables = ZeroSlots
    /\ timestamp_us = 0
    /\ clock = 0
    /\ pc = "idle"
    /\ num_received = 0
    /\ msgIdx = 0
    /\ commands = <<>>
    /\ command_messages = <<>>
    /\ stepIdx = 0
    /\ ticks = 0
    /\ ws_enabled \in BOOLEAN
    /\ command_queue = [ch \in Chan |-> <<>>]
    /\ command_mutex = [ch \in Chan |-> "free"]
    /\ srv_pc = [ch \in Chan |-> "idle"]
    /\ srv_cmd = [ch \in Chan |-> NoCommand]
    /\ rd_pc = "idle"
    /\ rd = RdIdle
    /\ writeLog = <<>>
    /\ atUpdateEnd = NoSnapshot
    /\ atTickEnd = NoSnapshot
    /\ pushed = [ch \in Chan |-> 0]
    /\ atLock = [ch \in Chan |-> 0]
    /\ handed = <<>>
    /\ hostOut = <<>>
    /\ out_capacity = 0
    /\ sent_size = Unset
    /\ sent_num = Unset
    /\ acc_pc = "idle"
    /\ closed = [ch \in Chan |-> {}]
    /\ hs = NoHandshake
    /\ inflight = <<>>
    /\ shook = <<>>
    /\ wsSent = <<>>
    /\ wsLog = <<>>
    /\ lookups = <<>>
    /\ aircraft_nearest_airport_id = [i \in 1..AirportIdBytes |-> 0]
    /\ lastString = NoString
    /\ cmd_client = NoClient
    /\ cmdLog = <<>>
    /\ last_broadcast_us = [ch \in Chan |-> 0]
    /\ cast = [ch \in Chan |-> NoCast]
    /\ lastAt = [ch \in Chan |-> Unset]
    /\ wire = <<>>
    /\ lifeLog = <<>>

\* The thread model is not in use
InitNoThreads ==
    /\ tpc = <<>>
    /\ mutexes = <<>>
    /\ local = <<>>
    /\ sock = <<>>
    /\ backlog = <<>>
    /\ budget = <<>>
    /\ running = <<>>
    /\ server_socket = <<>>
    /\ syscalls = <<>>

\* No client has connected yet
InitCommon ==
    /\ InitBridge
    /\ InitNoThreads
    /\ client_sockets = [ch \in Chan |-> {}]
    /\ conns = [ch \in Chan |-> 0]
    /\ recv_buffers = <<>>

\* The bridge after a successful Aerofly_FS_4_External_DLL_Init that started
\* the TCP server, and the WebSocket server if enabled
InitRunning ==
    /\ g_bridge = "obj"
    /\ initialized = TRUE
    /\ pData = "mapped"
    /\ tcp_server = TcpStarted
    /\ ws_server = IF ws_enabled THEN WsStarted ELSE WsStopped
    /\ wsa_refs = 1
    /\ phase = "none"
    /\ init = [shmOk |-> TRUE, tcpOk |-> TRUE, wsOk |-> ws_enabled, ret |-> TRUE]
    /\ leaked = <<>>

\* ... and the host makes no lifecycle call
InitStarted ==
    /\ InitRunning
    /\ lifeLeft = [init |-> FALSE, shuts |-> 0]

\* Initialize: data_valid = 0, update_counter = 0
InitFresh ==
    /\ InitCommon
    /\ InitStarted
    /\ data_valid = 0
    /\ update_counter = CounterZero
    /\ ctrAtCall = CounterZero

\* The header after 2^32 - 1 ticks that carried no message
InitLongRun ==
    /\ InitCommon
    /\ InitStarted
    /\ data_valid = 1
    /\ update_counter = CounterMax
    /\ ctrAtCall = CounterMax

\* ---------------------------------------------------------------- host tick
\* An UpdateData that applies the messages before it writes the header
UpdateDataOrderMessagesFirst ==
    <<"ud_invalidate", "ud_messages", "ud_timestamp", "ud_counter", "ud_validate">>

\* SharedMemoryInterface::UpdateData: its statements, in program order
UpdateDataOrder == <<"ud_invalidate", "ud_timestamp", "ud_counter", "ud_messages", "ud_validate">>

\* TCPServerInterface / WebSocketServerInterface::GetClientCount
GetClientCount(ch) == Cardinality(client_sockets[ch])

\* AeroflyBridge::Update: if (ws_enabled && ws_server.GetClientCount() > 0)
\* ws_server.BroadcastData(...); then the command queues are drained
AfterTcpBroadcast == IF ws_enabled /\ GetClientCount("ws") > 0 THEN "ws_bcast" ELSE "tcp_lock"

\* AeroflyBridge::Update: if (tcp_server.GetClientCount() > 0) tcp_server.BroadcastData(...)
AfterUpdateData == IF GetClientCount("tcp") > 0 THEN "tcp_bcast" ELSE AfterTcpBroadcast

\* The host thread's pc values right after UpdateData has returned
UpdateDone == {"tcp_bcast", "ws_bcast", "tcp_lock"}

\* Where control goes after statement st of UpdateData (the broadcasts and
\* GetPendingCommands follow UpdateData in AeroflyBridge::Update)
StageAfter(st) ==
    LET i == CHOOSE k \in 1..Len(UpdateDataOrder) : UpdateDataOrder[k] = st
    IN IF i < Len(UpdateDataOrder) THEN UpdateDataOrder[i + 1] ELSE AfterUpdateData

\* The message loop with no message (left) to apply is passed over
Goto(st, n) == IF st = "ud_messages" /\ n = 0 THEN StageAfter(st) ELSE st

\* An increment that saturates at UINT32_MAX
NextCounterSaturating(c) ==
    IF c = CounterMax THEN c
    ELSE IF c[2] + 1 < HalfWord THEN <<c[1], c[2] + 1>> ELSE <<c[1] + 1, 0>>

\* pData->update_counter++ (unsigned: UINT32_MAX + 1 = 0)
NextCounter(c) ==
    IF c[2] + 1 < HalfWord THEN <<c[1], c[2] + 1>> ELSE <<(c[1] + 1) % HalfWord, 0>>

\* Bytes one serialized message occupies in the output stream
MessageBytes == 2

\* msg.AddToByteStream(stream, size, num): the message is written at offset size;
\* out = <<size, num>>. The capacity of the stream is not among its arguments.
AddToByteStream(msg, out) == <<out[1] + MessageBytes, out[2] + 1>>

\* for (msg : sent_messages) msg.AddToByteStream(...), from size = num = 0
RECURSIVE BuildResponse(_, _)
BuildResponse(msgs, out) ==
    IF msgs = <<>> THEN out ELSE BuildResponse(Tail(msgs), AddToByteStream(Head(msgs), out))

\* The range of get_time_us: now.QuadPart * 1000000ULL is computed modulo 2^64
\* before the division by the counter frequency, so the value returned is the
\* elapsed microseconds modulo 2^64 / frequency (scaled down here)
TimeRangeUs == 44000

\* get_time_us() when the performance counter has counted t microseconds
GetTimeUs(t) == t % TimeRangeUs

\* Aerofly_FS_4_External_DLL_Update is entered with the tick's received messages
HostBegin ==
    /\ pc = "idle"
    /\ g_bridge = "obj" /\ initialized
    /\ ticks < env.maxTicks
    /\ ticks' = ticks + 1
    /\ \E d \in env.dts : clock' = clock + d
    /\ \E n \in 0..env.maxMsgs : num_received' = n /\ pc' = Goto(UpdateDataOrder[1], n)
    /\ msgIdx' = 0
    /\ writeLog' = <<>>
    /\ ctrAtCall' = update_counter
    /\ out_capacity' \in env.caps
    /\ sent_size' = Unset
    /\ sent_num' = Unset
    /\ cast' = [ch \in Chan |-> NoCast]
    /\ UNCHANGED <<snapVars, commands, command_messages, stepIdx, queueVars, serverVars,
                   readerVars, inputVars, lifeVars, client_sockets, acc_pc, conns, closed, recv_buffers, wsVars,
                   last_broadcast_us,
                   lastAt, wire, atUpdateEnd, atTickEnd, pushed, atLock, handed, hostOut>>

\* The snapshot is recorded when UpdateData returns
AtUpdateEnd(next, f, a) == IF next \in UpdateDone THEN <<f, a>> ELSE atUpdateEnd

HostOnly == <<queueVars, serverVars, readerVars, envVars, outVars, pushed, atLock, handed, hostOut,
              num_received, commands, command_messages, stepIdx, clock, ticks, ctrAtCall>>

\* pData->data_valid = 0 (the snapshots recorded for the previous tick are stale
\* from here on)
UD_Invalidate ==
    /\ pc = "ud_invalidate"
    /\ data_valid' = 0
    /\ writeLog' = Append(writeLog, "data_valid=0")
    /\ pc' = Goto(StageAfter("ud_invalidate"), num_received - msgIdx)
    /\ atUpdateEnd' = IF pc' \in UpdateDone THEN <<fields, all_variables>> ELSE NoSnapshot
    /\ atTickEnd' = NoSnapshot
    /\ UNCHANGED <<update_counter, timestamp_us, fields, all_variables, msgIdx, HostOnly>>

\* pData->timestamp_us = get_time_us()
UD_Timestamp ==
    /\ pc = "ud_timestamp"
    /\ timestamp_us' = GetTimeUs(clock)
    /\ writeLog' = Append(writeLog, "timestamp_us")
    /\ pc' = Goto(StageAfter("ud_timestamp"), num_received - msgIdx)
    /\ atUpdateEnd' = AtUpdateEnd(pc', fields, all_variables)
    /\ UNCHANGED <<data_valid, update_counter, fields, all_variables, msgIdx, atTickEnd, HostOnly>>

\* pData->update_counter++
UD_Counter ==
    /\ pc = "ud_counter"
    /\ update_counter' = NextCounter(update_counter)
    /\ writeLog' = Append(writeLog, "update_counter")
    /\ pc' = Goto(StageAfter("ud_counter"), num_received - msgIdx)
    /\ atUpdateEnd' = AtUpdateEnd(pc', fields, all_variables)
    /\ UNCHANGED <<data_valid, timestamp_us, fields, all_variables, msgIdx, atTickEnd, HostOnly>>

\* for (message : messages) ProcessMessage(message): one iteration; the content
\* of the message is drawn when the loop reaches it
UD_Message ==
    /\ pc = "ud_messages"
    /\ msgIdx < num_received
    /\ \E m \in env.msgs :
        /\ fields' = FieldsAfter(fields, m)
        /\ all_variables' = SlotsAfter(fields, all_variables, m)
    /\ msgIdx' = msgIdx + 1
    /\ writeLog' = Append(writeLog, "message")
    /\ pc' = IF msgIdx + 1 = num_received THEN StageAfter("ud_messages") ELSE pc
    /\ atUpdateEnd' = AtUpdateEnd(pc', fields', all_variables')
    /\ UNCHANGED <<data_valid, update_counter, timestamp_us, atTickEnd, HostOnly>>

\* An UpdateData that returns without marking the data ready
UD_ValidateSkipped ==
    /\ pc = "ud_validate"
    /\ writeLog' = Append(writeLog, "data_valid=1")
    /\ pc' = Goto(StageAfter("ud_validate"), num_received - msgIdx)
    /\ atUpdateEnd' = AtUpdateEnd(pc', fields, all_variables)
    /\ UNCHANGED <<snapVars, msgIdx, atTickEnd, HostOnly>>

\* pData->data_valid = 1
UD_Validate ==
    /\ pc = "ud_validate"
    /\ data_valid' = 1
    /\ writeLog' = Append(writeLog, "data_valid=1")
    /\ pc' = Goto(StageAfter("ud_validate"), num_received - msgIdx)
    /\ atUpdateEnd' = AtUpdateEnd(pc', fields, all_variables)
    /\ UNCHANGED <<update_counter, timestamp_us, fields, all_variables, msgIdx, atTickEnd, HostOnly>>

\* ---------------------------------------------------------------- telemetry broadcast
\* atoi: optional sign, then the leading decimal digits (0 if there are none)
DigitValue(c) ==
    CASE c = "0" -> 0 [] c = "1" -> 1 [] c = "2" -> 2 [] c = "3" -> 3 [] c = "4" -> 4
      [] c = "5" -> 5 [] c = "6" -> 6 [] c = "7" -> 7 [] c = "8" -> 8 [] c = "9" -> 9
IsDigit(c) == c \in {"0", "1", "2", "3", "4", "5", "6", "7", "8", "9"}

RECURSIVE LeadingDigits(_, _)
LeadingDigits(buf, acc) ==
    IF buf = <<>> \/ ~IsDigit(Head(buf)) THEN acc
    ELSE LeadingDigits(Tail(buf), 10 * acc + DigitValue(Head(buf)))

Atoi(buf) ==
    IF buf # <<>> /\ Head(buf) = "-" THEN 0 - LeadingDigits(Tail(buf), 0)
    ELSE IF buf # <<>> /\ Head(buf) = "+" THEN LeadingDigits(Tail(buf), 0)
    ELSE LeadingDigits(buf, 0)

\* get_interval_ms: int ms = (n > 0) ? atoi(buf) : 20; if (ms < 5) ms = 5
DefaultIntervalMs == 20
MinIntervalMs == 5
GetIntervalMs(buf) ==
    LET ms == IF Len(buf) > 0 THEN Atoi(buf) ELSE DefaultIntervalMs
    IN IF ms < MinIntervalMs THEN MinIntervalMs ELSE ms

UsPerMs == 1000

\* The range of the unsigned 64-bit subtraction now_us - last_broadcast_us
\* (scaled down; it exceeds every get_time_us value and every interval)
UintRange == 1000000000

\* if (now_us - last_broadcast_us < get_interval_ms() * 1000ULL) return;
Throttled(now_us, last_us, buf) ==
    (now_us - last_us) % UintRange < GetIntervalMs(buf) * UsPerMs

\* A document that also carries the servers' last-broadcast times
BuildDataJSONWithCastTimes(ts, dv, ctr, slots) ==
    [timestamp |-> ts, data_valid |-> dv, update_counter |-> ctr, all_variables |-> slots,
     last_broadcast_us |-> last_broadcast_us]

\* BuildDataJSON(data): the document is a function of the snapshot alone
BuildDataJSON(ts, dv, ctr, slots) ==
    [timestamp |-> ts, data_valid |-> dv, update_counter |-> ctr, all_variables |-> slots]

\* What send() can do on a non-blocking client socket: take the whole frame,
\* fail with WSAEWOULDBLOCK, or fail with another error
SendOutcomes == {"sent", "wouldblock", "fatal"}

\* ... or take the first part of the frame and fail with WSAEWOULDBLOCK when
\* called again for the rest (try_send_all_nonblocking then returns 1)
PartialOutcomes == {"partial"}

\* The text BuildDataJSON returns, as its bytes: the object "{...}", then "\n";
\* each byte is tagged with the update_counter of the document it belongs to
Document(payload) ==
    <<[char |-> "{}", of |-> payload.update_counter],
      [char |-> "\n", of |-> payload.update_counter]>>

\* The bytes of frame the socket has taken when the sends to a client end
Taken(frame, outcome) ==
    CASE outcome = "sent" -> frame
      [] outcome = "partial" -> SubSeq(frame, 1, Len(frame) - 1)
      [] OTHER -> <<>>

\* The send loop's verdict on a client: TCP removes it if try_send_all_nonblocking
\* returned -1 (neither WSAEWOULDBLOCK nor WSAEINTR); WebSocket removes it if
\* send returned SOCKET_ERROR, whatever the error
ToRemove(ch, outcome) ==
    IF ch = "tcp" THEN outcome = "fatal" ELSE outcome # "sent"

\* The clients of a set in the order of the vector (connection order)
RECURSIVE InOrder(_)
InOrder(S) ==
    IF S = {} THEN <<>>
    ELSE LET c == CHOOSE x \in S : \A y \in S : x <= y IN <<c>> \o InOrder(S \ {c})

\* A send loop that gives up at the first client whose send would block
RECURSIVE SendLoopStopsAtBlock(_, _)
SendLoopStopsAtBlock(socks, outcome) ==
    IF socks = <<>> THEN {}
    ELSE IF outcome[Head(socks)] = "wouldblock" THEN {Head(socks)}
    ELSE {Head(socks)} \cup SendLoopStopsAtBlock(Tail(socks), outcome)

\* for (SOCKET s : snapshot) { send(s, ...) ... }: the clients a send was tried on
RECURSIVE SendLoop(_, _)
SendLoop(socks, outcome) ==
    IF socks = <<>> THEN {} ELSE {Head(socks)} \cup SendLoop(Tail(socks), outcome)

EraseNothing(bufs, S) == bufs
\* recv_buffers.erase(s) for every s in S
Erase(bufs, S) == [c \in DOMAIN bufs \ S |-> bufs[c]]

BcastPc(ch) == IF ch = "tcp" THEN "tcp_bcast" ELSE "ws_bcast"
AfterBroadcast(ch) == IF ch = "tcp" THEN AfterTcpBroadcast ELSE "tcp_lock"
Running(ch) == IF ch = "tcp" THEN tcp_server.running ELSE ws_server.running

\* BroadcastData of server ch, the whole call: the running test, the throttle,
\* the document, the send loop over the snapshot of client_sockets and the
\* removal of the clients it marked
BroadcastData(ch) ==
    /\ pc = BcastPc(ch)
    /\ pc' = AfterBroadcast(ch)
    /\ LET now_us == GetTimeUs(clock)
       IN IF ~Running(ch) \/ Throttled(now_us, last_broadcast_us[ch], env.broadcastMs)
          THEN /\ cast' = [cast EXCEPT ![ch] = [NoCast EXCEPT !.did = "nothing"]]
               /\ UNCHANGED <<last_broadcast_us, lastAt, client_sockets, closed, recv_buffers, wire>>
          ELSE \E outcome \in [client_sockets[ch] -> env.sends] :
               /\ last_broadcast_us' = [last_broadcast_us EXCEPT ![ch] = now_us]
               /\ lastAt' = [lastAt EXCEPT ![ch] = clock]
               /\ cast' = [cast EXCEPT ![ch] =
                    [did |-> "broadcast",
                     payload |-> BuildDataJSON(timestamp_us, data_valid, update_counter,
                                               all_variables),
                     snapshot |-> client_sockets[ch],
                     tried |-> SendLoop(InOrder(client_sockets[ch]), outcome),
                     outcome |-> outcome]]
               /\ client_sockets' = [client_sockets EXCEPT ![ch] =
                    {c \in @ : ~(c \in cast'[ch].tried /\ ToRemove(ch, outcome[c]))}]
               /\ closed' = [closed EXCEPT ![ch] = @ \cup (client_sockets[ch] \ client_sockets'[ch])]
               /\ recv_buffers' = IF ch = "ws"
                                  THEN Erase(recv_buffers, client_sockets[ch] \ client_sockets'[ch])
                                  ELSE recv_buffers
               /\ wire' = IF ch = "tcp"
                          THEN [c \in DOMAIN wire \cup cast'[ch].tried |->
                                  (IF c \in DOMAIN wire THEN wire[c] ELSE <<>>)
                                  \o (IF c \in cast'[ch].tried
                                      THEN Taken(Document(cast'[ch].payload), outcome[c])
                                      ELSE <<>>)]
                          ELSE wire
    /\ UNCHANGED <<snapVars, num_received, msgIdx, commands, command_messages, stepIdx, clock,
                   ticks, queueVars, serverVars, readerVars, inputVars, lifeVars, acc_pc, conns, wsVars,
                   outVars, historyVars>>

BroadcastNext == \E ch \in Chan : BroadcastData(ch)

\* ---------------------------------------------------------------- command drain
\* GetPendingCommands: what the loop returns from queue q (front, pop, until empty)
RECURSIVE GetPendingCommands(_)
GetPendingCommands(q) ==
    IF q = <<>> THEN <<>> ELSE <<Head(q)>> \o GetPendingCommands(PopFront(q))

Tags(cmds) == [i \in 1..Len(cmds) |-> cmds[i].src]

\* The host thread's pc while it drains channel ch
LockPc(ch) == IF ch = "tcp" THEN "tcp_lock" ELSE "ws_lock"
DrainPc(ch) == IF ch = "tcp" THEN "tcp_drain" ELSE "ws_drain"
\* AeroflyBridge::Update: the WebSocket queue is drained only if (ws_enabled)
AfterDrain(ch) == IF ch = "tcp" /\ ws_enabled THEN "ws_lock" ELSE "process"

\* GetPendingCommands: std::lock_guard<std::mutex> lock(command_mutex)
GetPendingLock(ch) ==
    /\ pc = LockPc(ch)
    /\ command_mutex[ch] = "free"
    /\ command_mutex' = [command_mutex EXCEPT ![ch] = "host"]
    /\ atLock' = [atLock EXCEPT ![ch] = pushed[ch]]
    /\ pc' = DrainPc(ch)
    /\ UNCHANGED <<snapVars, num_received, msgIdx, commands, command_messages, stepIdx,
                   clock, ticks, ws_enabled, command_queue, serverVars, readerVars, envVars, outVars,
                   writeLog, ctrAtCall, atUpdateEnd, atTickEnd, pushed, handed, hostOut>>

\* GetPendingCommands: the loop and the return (the lock is released); Update
\* appends the WebSocket commands to the TCP commands
GetPendingDrain(ch) ==
    /\ pc = DrainPc(ch)
    /\ commands' = IF ch = "tcp" THEN GetPendingCommands(command_queue[ch])
                   ELSE MergeCommands(commands, GetPendingCommands(command_queue[ch]))
    /\ command_queue' = [command_queue EXCEPT ![ch] = <<>>]
    /\ command_mutex' = [command_mutex EXCEPT ![ch] = "free"]
    /\ pc' = AfterDrain(ch)
    /\ UNCHANGED <<snapVars, num_received, msgIdx, command_messages, stepIdx,
                   clock, ticks, ws_enabled, serverVars, readerVars, envVars, outVars, historyVars>>

\* if (!commands.empty()) command_messages = ProcessCommands(commands)
HostProcess ==
    /\ pc = "process"
    /\ command_messages' = ProcessCommands(commands)
    /\ handed' = handed \o Tags(commands)
    /\ stepIdx' = 0
    /\ pc' = IF command_messages' = <<>> THEN "finish" ELSE "step"
    /\ UNCHANGED <<snapVars, num_received, msgIdx, commands, clock, ticks,
                   queueVars, serverVars, readerVars, envVars, outVars, writeLog, ctrAtCall,
                   atUpdateEnd, atTickEnd, pushed, atLock, hostOut>>

\* for (msg : command_messages) if (msg.GetFlags().IsSet(Step)) ProcessMessage(msg):
\* one iteration
HostStep ==
    /\ pc = "step"
    /\ LET msg == command_messages[stepIdx + 1]
       IN IF msg.flag = "Step"
          THEN /\ fields' = FieldsAfter(fields, msg)
               /\ all_variables' = SlotsAfter(fields, all_variables, msg)
          ELSE UNCHANGED <<fields, all_variables>>
    /\ stepIdx' = stepIdx + 1
    /\ pc' = IF stepIdx + 1 = Len(command_messages) THEN "finish" ELSE pc
    /\ UNCHANGED <<data_valid, update_counter, timestamp_us, num_received, msgIdx,
                   commands, command_messages, clock, ticks, queueVars,
                   serverVars, readerVars, envVars, outVars, historyVars>>

\* Aerofly_FS_4_External_DLL_Update: sent_messages are written to the output
\* stream and the tick returns. Bytes written past the end of the host's buffer
\* are undefined behaviour: the tick returns all the same, or the process stops
\* at the fault ("crashed")
HostFinish ==
    /\ pc = "finish"
    /\ sent_size' = BuildResponse(command_messages, <<0, 0>>)[1]
    /\ sent_num' = BuildResponse(command_messages, <<0, 0>>)[2]
    /\ hostOut' = hostOut \o Tags(command_messages)
    /\ atTickEnd' = <<all_variables>>
    /\ commands' = <<>>
    /\ command_messages' = <<>>
    /\ stepIdx' = 0
    /\ pc' \in IF sent_size' > out_capacity THEN {"idle", "crashed"} ELSE {"idle"}
    /\ UNCHANGED <<snapVars, num_received, msgIdx, clock, ticks, queueVars, serverVars,
                   readerVars, envVars, out_capacity, writeLog, ctrAtCall, atUpdateEnd, pushed, atLock,
                   handed>>

\* ---------------------------------------------------------------- server threads
\* The thread that receives the commands of channel ch: CommandLoop on TCP,
\* ServerLoop on WebSocket
CommandThread(ch) == IF ch = "tcp" THEN tcp_server.command_thread ELSE ws_server.server_thread

\* CommandLoop / ProcessWebSocketFrames: a command string has been received and
\* ProcessCommand takes command_mutex
ServerLock(ch) ==
    /\ srv_pc[ch] = "idle"
    /\ cmdsLeft > 0
    /\ ch = "ws" => ws_enabled
    /\ CommandThread(ch) = "running"
    /\ command_mutex[ch] = "free"
    /\ \E c \in env.cmds :
        srv_cmd' = [srv_cmd EXCEPT ![ch] = [c EXCEPT !.src = <<ch, pushed[ch] + 1>>]]
    /\ command_mutex' = [command_mutex EXCEPT ![ch] = "server"]
    /\ srv_pc' = [srv_pc EXCEPT ![ch] = "push"]
    /\ cmdsLeft' = cmdsLeft - 1
    /\ UNCHANGED <<snapVars, hostVars, ws_enabled, command_queue, readerVars, envVars, outVars, historyVars>>

\* command_queue.push(command); the lock is released
ServerPush(ch) ==
    /\ srv_pc[ch] = "push"
    /\ command_queue' = [command_queue EXCEPT ![ch] = PushBack(@, srv_cmd[ch])]
    /\ pushed' = [pushed EXCEPT ![ch] = @ + 1]
    /\ command_mutex' = [command_mutex EXCEPT ![ch] = "free"]
    /\ srv_pc' = [srv_pc EXCEPT ![ch] = "idle"]
    /\ srv_cmd' = [srv_cmd EXCEPT ![ch] = NoCommand]
    /\ UNCHANGED <<snapVars, hostVars, ws_enabled, cmdsLeft, readerVars, envVars, outVars,
                   writeLog, ctrAtCall, atUpdateEnd, atTickEnd, atLock, handed, hostOut>>

\* CommandLoop: accept() has returned a command client and running was found
\* true; the thread is in recv(client, ...) on the blocking socket
CmdConnect ==
    /\ srv_pc["tcp"] = "idle"
    /\ tcp_server.command_thread = "running"
    /\ tcp_server.running
    /\ cmdsLeft > 0
    /\ cmdsLeft' = cmdsLeft - 1
    /\ srv_pc' = [srv_pc EXCEPT !["tcp"] = "recv"]
    /\ UNCHANGED <<snapVars, hostVars, queueVars, srv_cmd, readerVars, envVars, outVars,
                   historyVars>>

\* CommandLoop: recv returns the bytes the client has sent; ProcessCommand
\* takes command_mutex
CmdRecvData ==
    /\ srv_pc["tcp"] = "recv"
    /\ command_mutex["tcp"] = "free"
    /\ \E c \in env.cmds :
        srv_cmd' = [srv_cmd EXCEPT !["tcp"] = [c EXCEPT !.src = <<"tcp", pushed["tcp"] + 1>>]]
    /\ command_mutex' = [command_mutex EXCEPT !["tcp"] = "server"]
    /\ srv_pc' = [srv_pc EXCEPT !["tcp"] = "push"]
    /\ UNCHANGED <<snapVars, hostVars, ws_enabled, command_queue, cmdsLeft, readerVars, envVars,
                   outVars, historyVars>>

\* CommandLoop: recv returns 0 or an error because the client has closed or
\* reset the connection; closesocket(client)
CmdRecvClosed ==
    /\ srv_pc["tcp"] = "recv"
    /\ srv_pc' = [srv_pc EXCEPT !["tcp"] = "idle"]
    /\ UNCHANGED <<snapVars, hostVars, queueVars, srv_cmd, cmdsLeft, readerVars, envVars, outVars,
                   historyVars>>

\* ---------------------------------------------------------------- WebSocket connections
\* An HTTP header line "name sep value\r\n" of the upgrade request
Header(name, sep, value) == [name |-> name, sep |-> sep, value |-> value]
\* The empty line that ends the headers
Blank == Header("", "", "")
\* A line that alone is longer than the 8192 bytes the handshake reads
Padding == Header("X-Pad", ": ", "8K")
RequestLine == Header("GET / HTTP/1.1", "", "")

\* std::tolower over the words the requests are made of
Lower(word) ==
    CASE word \in {"Upgrade", "UPGRADE"} -> "upgrade"
      [] word \in {"WebSocket", "WEBSOCKET"} -> "websocket"
      [] word \in {"Connection", "CONNECTION"} -> "connection"
      [] word \in {"Sec-WebSocket-Key", "SEC-WEBSOCKET-KEY"} -> "sec-websocket-key"
      [] word = "Keep-Alive, Upgrade" -> "keep-alive, upgrade"
      [] OTHER -> word

\* request.size()
RequestSize(request) ==
    IF \E i \in DOMAIN request : request[i] = Padding THEN 8200 ELSE 20 * Len(request)

\* HandleWebSocketHandshake: the read loop ends when the request holds
\* "\r\n\r\n", or by break when it has grown past 8192 bytes
HeadersRead(request) ==
    \/ \E i \in DOMAIN request : i > 1 /\ request[i] = Blank
    \/ RequestSize(request) > 8192

\* lower.find(name + sep + value) != npos, a header line at a time
Find(request, name, sep, value) ==
    \E i \in DOMAIN request :
        /\ Lower(request[i].name) = name
        /\ request[i].sep = sep
        /\ Lower(request[i].value) = value

\* lower.find("sec-websocket-key:") != npos, and the line has its "\r\n"
FindKey(request) ==
    \E i \in DOMAIN request :
        /\ Lower(request[i].name) = "sec-websocket-key"
        /\ request[i].sep \in {":", ": "}

\* HandleWebSocketHandshake: the three header tests before the 101 response
HandshakeAcceptsAnyKey(request) ==
    /\ Find(request, "upgrade", ": ", "websocket")
    /\ Find(request, "connection", ": ", "upgrade")
HandshakeAccepts(request) ==
    /\ Find(request, "upgrade", ": ", "websocket")
    /\ Find(request, "connection", ": ", "upgrade")
    /\ FindKey(request)

\* Upgrade requests a client may send
GoodRequest ==
    <<RequestLine, Header("Upgrade", ": ", "websocket"), Header("Connection", ": ", "Upgrade"),
      Header("Sec-WebSocket-Key", ": ", "dGhlIHNhbXBsZQ=="), Blank>>
UpperRequest ==
    <<RequestLine, Header("UPGRADE", ": ", "WebSocket"), Header("CONNECTION", ": ", "UPGRADE"),
      Header("SEC-WEBSOCKET-KEY", ":", "dGhlIHNhbXBsZQ=="), Blank>>
NoUpgradeRequest ==
    <<RequestLine, Header("Connection", ": ", "Upgrade"),
      Header("Sec-WebSocket-Key", ": ", "dGhlIHNhbXBsZQ=="), Blank>>
NoConnectionRequest ==
    <<RequestLine, Header("Upgrade", ": ", "websocket"),
      Header("Sec-WebSocket-Key", ": ", "dGhlIHNhbXBsZQ=="), Blank>>
NoKeyRequest ==
    <<RequestLine, Header("Upgrade", ": ", "websocket"), Header("Connection", ": ", "Upgrade"),
      Blank>>
KeepAliveRequest ==
    <<RequestLine, Header("Upgrade", ": ", "websocket"),
      Header("Connection", ": ", "Keep-Alive, Upgrade"),
      Header("Sec-WebSocket-Key", ": ", "dGhlIHNhbXBsZQ=="), Blank>>
UnendedRequest ==
    <<RequestLine, Header("Upgrade", ": ", "websocket"), Header("Connection", ": ", "Upgrade"),
      Header("Sec-WebSocket-Key", ": ", "dGhlIHNhbXBsZQ==")>>
PaddedRequest ==
    <<RequestLine, Header("Upgrade", ": ", "websocket"), Header("Connection", ": ", "Upgrade"),
      Padding>>
Requests ==
    {GoodRequest, UpperRequest, NoUpgradeRequest, NoConnectionRequest, NoKeyRequest,
     KeepAliveRequest, UnendedRequest, PaddedRequest}

\* The WebSocket ServerLoop is at the top of its loop
WsIdle ==
    /\ ws_server.server_thread = "running"
    /\ ws_server.running
    /\ srv_pc["ws"] = "idle"

\* closesocket(client): the socket leaves the client set with its buffer
WsClose(c) ==
    /\ closed' = [closed EXCEPT !["ws"] = @ \cup {c}]
    /\ client_sockets' = [client_sockets EXCEPT !["ws"] = @ \ {c}]
    /\ recv_buffers' = Erase(recv_buffers, {c})

\* ServerLoop: accept() returns a client and HandleWebSocketHandshake starts
\* reading; the client is sending one of the requests
WsAcceptBegin ==
    /\ WsIdle
    /\ conns["ws"] < env.maxConns
    /\ conns' = [conns EXCEPT !["ws"] = @ + 1]
    /\ \E request \in env.requests :
        hs' = [client |-> conns["ws"] + 1, request |-> <<>>, pending |-> request]
    /\ srv_pc' = [srv_pc EXCEPT !["ws"] = "handshake"]
    /\ UNCHANGED <<snapVars, hostVars, queueVars, srv_cmd, cmdsLeft, readerVars, inputVars, lifeVars,
                   client_sockets, acc_pc, closed, recv_buffers, inflight, shook, wsSent, wsLog,
                   castVars, outVars, historyVars>>

\* HandleWebSocketHandshake: recv returns n > 0 bytes, appended to the request
WsHandshakeRecv ==
    /\ srv_pc["ws"] = "handshake"
    /\ ~HeadersRead(hs.request)
    /\ \E n \in {k \in env.cuts \cup {Len(hs.pending)} : k \in 1..Len(hs.pending)} :
        hs' = [hs EXCEPT !.request = @ \o SubSeq(hs.pending, 1, n),
                         !.pending = SubSeq(@, n + 1, Len(@))]
    /\ UNCHANGED <<snapVars, hostVars, queueVars, serverVars, readerVars, inputVars, lifeVars,
                   client_sockets, acc_pc, conns, closed, recv_buffers, inflight, shook, wsSent,
                   wsLog, castVars, outVars, historyVars>>

\* The handshake has ended for hs.client
Shaken(request, response, result) ==
    /\ shook' = [c \in DOMAIN shook \cup {hs.client} |->
                    IF c = hs.client
                    THEN [request |-> request, response |-> response, result |-> result]
                    ELSE shook[c]]
    /\ hs' = NoHandshake
    /\ srv_pc' = [srv_pc EXCEPT !["ws"] = "idle"]

\* HandleWebSocketHandshake returns false from its read loop: recv failed with
\* an error other than would-block, or 2 s have passed; ServerLoop closes the
\* socket
WsHandshakeFail ==
    /\ srv_pc["ws"] = "handshake"
    /\ \E why \in {"read_error", "deadline"} :
        /\ why = "read_error" => ~HeadersRead(hs.request)
        /\ why = "deadline" => RequestSize(hs.request) <= 8192
        /\ Shaken(hs.request, "none", why)
    /\ WsClose(hs.client)
    /\ UNCHANGED <<snapVars, hostVars, queueVars, srv_cmd, cmdsLeft, readerVars, inputVars, lifeVars,
                   acc_pc, conns, inflight, wsSent, wsLog, castVars, outVars, historyVars>>

\* HandleWebSocketHandshake after the read loop: the headers are tested, the
\* 101 response is sent and the result is sent != SOCKET_ERROR; ServerLoop adds
\* the client with an empty receive buffer, or closes the socket
WsHandshakeDone ==
    /\ srv_pc["ws"] = "handshake"
    /\ HeadersRead(hs.request)
    /\ IF HandshakeAccepts(hs.request)
       THEN \E sent \in {"sent", "error"} :
            IF sent = "sent"
            THEN /\ Shaken(hs.request, "101", "open")
                 /\ client_sockets' = [client_sockets EXCEPT !["ws"] = @ \cup {hs.client}]
                 /\ recv_buffers' = [c \in DOMAIN recv_buffers \cup {hs.client} |->
                                        IF c = hs.client THEN <<>> ELSE recv_buffers[c]]
                 /\ inflight' = [c \in DOMAIN inflight \cup {hs.client} |->
                                    IF c = hs.client THEN <<>> ELSE inflight[c]]
                 /\ wsSent' = [c \in DOMAIN wsSent \cup {hs.client} |->
                                  IF c = hs.client THEN <<>> ELSE wsSent[c]]
                 /\ wsLog' = [c \in DOMAIN wsLog \cup {hs.client} |->
                                 IF c = hs.client THEN <<>> ELSE wsLog[c]]
                 /\ UNCHANGED closed
            ELSE /\ Shaken(hs.request, "none", "send_error")
                 /\ WsClose(hs.client)
                 /\ UNCHANGED <<inflight, wsSent, wsLog>>
       ELSE /\ Shaken(hs.request, "none", "invalid")
            /\ WsClose(hs.client)
            /\ UNCHANGED <<inflight, wsSent, wsLog>>
    /\ UNCHANGED <<snapVars, hostVars, queueVars, srv_cmd, cmdsLeft, readerVars, inputVars, lifeVars,
                   acc_pc, conns, castVars, outVars, historyVars>>

\* a ^ b on bytes
RECURSIVE Xor(_, _)
Xor(a, b) ==
    IF a = 0 THEN b
    ELSE IF b = 0 THEN a
    ELSE ((a + b) % 2) + 2 * Xor(a \div 2, b \div 2)

\* The value of the bytes as a big-endian number
RECURSIVE BigEndian(_)
BigEndian(bytes) ==
    IF bytes = <<>> THEN 0
    ELSE 256 * BigEndian(SubSeq(bytes, 1, Len(bytes) - 1)) + bytes[Len(bytes)]

OpContinuation == 0
OpText == 1
OpBinary == 2
OpClose == 8
OpPing == 9
OpPong == 10

\* A frame as its sender means it: payload is the plain payload, ext the
\* number of extended length bytes
Frame(fin, opcode, masked, mask, ext, payload) ==
    [fin |-> fin, opcode |-> opcode, masked |-> masked, mask |-> mask, ext |-> ext,
     payload |-> payload]

\* The bytes of the frame on the wire (RFC 6455, section 5.2)
Encode(f) ==
    <<(IF f.fin THEN 128 ELSE 0) + f.opcode,
      (IF f.masked THEN 128 ELSE 0) + (IF f.ext = 0 THEN Len(f.payload) ELSE 126)>>
    \o (IF f.ext = 0 THEN <<>> ELSE <<Len(f.payload) \div 256, Len(f.payload) % 256>>)
    \o (IF f.masked THEN f.mask ELSE <<>>)
    \o [i \in 1..Len(f.payload) |->
           IF f.masked THEN Xor(f.payload[i], f.mask[((i - 1) % 4) + 1]) ELSE f.payload[i]]

\* CreateWebSocketFrame(payload, opcode): a final, unmasked frame
CreateWebSocketFrame(payload, opcode) ==
    <<128 + (opcode % 16)>>
    \o (IF Len(payload) <= 125 THEN <<Len(payload)>>
        ELSE <<126, (Len(payload) \div 256) % 256, Len(payload) % 256>>)
    \o payload

\* What one call of ProcessWebSocketFrames has done so far: the bytes left in
\* the buffer, one entry per frame taken from it, and whether a close frame
\* made it return
NothingProcessed(buf) == [buf |-> buf, frames |-> <<>>, closed |-> FALSE]
Processed(opcode, masked, enq, pong) ==
    [opcode |-> opcode, masked |-> masked, enq |-> enq, pong |-> pong]

\* ProcessWebSocketFrames: the loop over the frames that are complete in buf
RECURSIVE ProcessWebSocketFramesKeepingMask(_)
ProcessWebSocketFramesKeepingMask(done) ==
    LET buf == done.buf
    IN IF Len(buf) < 2 THEN done
       ELSE
       LET opcode == buf[1] % 16
           masked == buf[2] \div 128 = 1
           len7 == buf[2] % 128
           ext == IF len7 = 126 THEN 2 ELSE IF len7 = 127 THEN 8 ELSE 0
           len == IF ext = 0 THEN len7 ELSE BigEndian(SubSeq(buf, 3, 2 + ext))
           pos == 2 + ext + (IF masked THEN 4 ELSE 0)
       IN IF Len(buf) < 2 + ext \/ Len(buf) < pos \/ Len(buf) < pos + len THEN done
          ELSE
          LET payload == [i \in 1..len |-> buf[pos + i]]
              rest == SubSeq(buf, pos + len + 1, Len(buf))
              took(enq, pong) ==
                  [done EXCEPT !.buf = rest,
                               !.frames = Append(@, Processed(opcode, masked, enq, pong))]
          IN IF opcode = OpClose
             THEN [took(<<>>, <<>>) EXCEPT !.closed = TRUE]
             ELSE IF opcode = OpText
             THEN ProcessWebSocketFramesKeepingMask(took(<<payload>>, <<>>))
             ELSE IF opcode = OpPing
             THEN ProcessWebSocketFramesKeepingMask(
                      took(<<>>, <<CreateWebSocketFrame(payload, OpPong)>>))
             ELSE ProcessWebSocketFramesKeepingMask(took(<<>>, <<>>))
RECURSIVE ProcessWebSocketFrames(_)
ProcessWebSocketFrames(done) ==
    LET buf == done.buf
    IN IF Len(buf) < 2 THEN done
       ELSE
       LET opcode == buf[1] % 16
           masked == buf[2] \div 128 = 1
           len7 == buf[2] % 128
           ext == IF len7 = 126 THEN 2 ELSE IF len7 = 127 THEN 8 ELSE 0
           len == IF ext = 0 THEN len7 ELSE BigEndian(SubSeq(buf, 3, 2 + ext))
           pos == 2 + ext + (IF masked THEN 4 ELSE 0)
       IN IF Len(buf) < 2 + ext \/ Len(buf) < pos \/ Len(buf) < pos + len THEN done
          ELSE
          LET mask == IF masked THEN SubSeq(buf, pos - 3, pos) ELSE <<0, 0, 0, 0>>
              payload == [i \in 1..len |->
                             IF masked THEN Xor(buf[pos + i], mask[((i - 1) % 4) + 1])
                             ELSE buf[pos + i]]
              rest == SubSeq(buf, pos + len + 1, Len(buf))
              took(enq, pong) ==
                  [done EXCEPT !.buf = rest,
                               !.frames = Append(@, Processed(opcode, masked, enq, pong))]
          IN IF opcode = OpClose
             THEN [took(<<>>, <<>>) EXCEPT !.closed = TRUE]
             ELSE IF opcode = OpText
             THEN ProcessWebSocketFrames(took(<<payload>>, <<>>))
             ELSE IF opcode = OpPing
             THEN ProcessWebSocketFrames(took(<<>>, <<CreateWebSocketFrame(payload, OpPong)>>))
             ELSE ProcessWebSocketFrames(took(<<>>, <<>>))

\* The command strings enqueued by the frames, in order
RECURSIVE Enqueued(_)
Enqueued(frames) ==
    IF frames = <<>> THEN <<>> ELSE frames[1].enq \o Enqueued(Tail(frames))

\* The bytes of the command strings the clients send: the one that sets the
\* left door, and one that is not JSON
DoorText == <<123, 68, 125>>
JunkText == <<104, 105>>
\* The command string as ParseCommand reads it
TextOf(raw) == IF raw = DoorText THEN CmdLeftDoor ELSE CmdNoJson

\* command_queue.push(payload) for each string, tagged with its place
RECURSIVE PushAll(_, _, _)
PushAll(queue, raws, n) ==
    IF raws = <<>> THEN queue
    ELSE PushAll(PushBack(queue, [TextOf(raws[1]) EXCEPT !.src = <<"ws", n + 1>>]),
                 Tail(raws), n + 1)

MaskA == <<55, 250, 33, 61>>
\* Frames a client may send
DoorFrame == Frame(TRUE, OpText, TRUE, MaskA, 0, DoorText)
LongFormFrame == Frame(TRUE, OpText, TRUE, MaskA, 2, JunkText)
FragmentFrame == Frame(FALSE, OpText, TRUE, MaskA, 0, JunkText)
UnmaskedFrame == Frame(TRUE, OpText, FALSE, MaskA, 0, DoorText)
PingFrame == Frame(TRUE, OpPing, TRUE, MaskA, 0, JunkText)
UnmaskedPingFrame == Frame(TRUE, OpPing, FALSE, MaskA, 0, JunkText)
PongFrame == Frame(TRUE, OpPong, TRUE, MaskA, 0, JunkText)
BinaryFrame == Frame(TRUE, OpBinary, TRUE, MaskA, 0, DoorText)
ContinuationFrame == Frame(TRUE, OpContinuation, TRUE, MaskA, 0, DoorText)
CloseFrame == Frame(TRUE, OpClose, TRUE, MaskA, 0, <<>>)
\* The frames of one connection are drawn from one of these sets
FrameSets ==
    { {DoorFrame, LongFormFrame},
      {DoorFrame, UnmaskedFrame},
      {FragmentFrame, ContinuationFrame},
      {DoorFrame, PingFrame},
      {PingFrame, UnmaskedPingFrame},
      {LongFormFrame, PongFrame},
      {DoorFrame, BinaryFrame},
      {PingFrame, CloseFrame} }

\* End of the byte stream of a client that has closed its connection
Eof == 0 - 1

\* The client is connected and has not closed its side
Sending(c) ==
    /\ c \in DOMAIN inflight
    /\ c \notin closed["ws"]
    /\ Eof \notin {inflight[c][i] : i \in DOMAIN inflight[c]}

\* A client whose handshake succeeded sends a frame
WsClientSend(c) ==
    /\ Sending(c)
    /\ cmdsLeft > 0
    /\ cmdsLeft' = cmdsLeft - 1
    /\ \E f \in env.frames :
        /\ inflight' = [inflight EXCEPT ![c] = @ \o Encode(f)]
        /\ wsSent' = [wsSent EXCEPT ![c] = Append(@, f)]
    /\ UNCHANGED <<snapVars, hostVars, queueVars, srv_pc, srv_cmd, readerVars, inputVars, lifeVars,
                   client_sockets, acc_pc, conns, closed, recv_buffers, hs, shook, wsLog,
                   castVars, outVars, historyVars>>

\* A client closes its connection
WsClientClose(c) ==
    /\ Sending(c)
    /\ inflight' = [inflight EXCEPT ![c] = Append(@, Eof)]
    /\ UNCHANGED <<snapVars, hostVars, queueVars, serverVars, readerVars, inputVars, lifeVars,
                   client_sockets, acc_pc, conns, closed, recv_buffers, hs, shook, wsSent, wsLog,
                   castVars, outVars, historyVars>>

\* A read that forgets the bytes of an incomplete frame
WsRecvDroppingRest(c) ==
    /\ WsIdle
    /\ c \in client_sockets["ws"]
    /\ inflight[c] # <<>>
    /\ Head(inflight[c]) # Eof
    /\ \E n \in {k \in env.cuts \cup {Len(inflight[c])} :
                    k <= Len(inflight[c]) /\ Eof \notin {inflight[c][i] : i \in 1..k}} :
        LET done == ProcessWebSocketFrames(
                        NothingProcessed(recv_buffers[c] \o SubSeq(inflight[c], 1, n)))
            raws == Enqueued(done.frames)
        IN /\ raws # <<>> => command_mutex["ws"] = "free"
           /\ inflight' = [inflight EXCEPT ![c] = SubSeq(@, n + 1, Len(@))]
           /\ command_queue' = [command_queue EXCEPT !["ws"] = PushAll(@, raws, pushed["ws"])]
           /\ pushed' = [pushed EXCEPT !["ws"] = @ + Len(raws)]
           /\ wsLog' = [wsLog EXCEPT ![c] = @ \o done.frames]
           /\ IF done.closed
              THEN WsClose(c)
              ELSE /\ recv_buffers' = [recv_buffers EXCEPT ![c] = <<>>]
                   /\ UNCHANGED <<client_sockets, closed>>
    /\ UNCHANGED <<snapVars, hostVars, ws_enabled, command_mutex, serverVars, readerVars, inputVars,
                   lifeVars, acc_pc, conns, hs, shook, wsSent, castVars, outVars,
                   writeLog, ctrAtCall, atUpdateEnd, atTickEnd, atLock, handed, hostOut>>

\* ServerLoop, read from clients: recv(s) returns n > 0 bytes, they are
\* appended to recv_buffers[s] and ProcessWebSocketFrames(s) runs; text
\* payloads are pushed under command_mutex
WsRecv(c) ==
    /\ WsIdle
    /\ c \in client_sockets["ws"]
    /\ inflight[c] # <<>>
    /\ Head(inflight[c]) # Eof
    /\ \E n \in {k \in env.cuts \cup {Len(inflight[c])} :
                    k <= Len(inflight[c]) /\ Eof \notin {inflight[c][i] : i \in 1..k}} :
        LET done == ProcessWebSocketFrames(
                        NothingProcessed(recv_buffers[c] \o SubSeq(inflight[c], 1, n)))
            raws == Enqueued(done.frames)
        IN /\ raws # <<>> => command_mutex["ws"] = "free"
           /\ inflight' = [inflight EXCEPT ![c] = SubSeq(@, n + 1, Len(@))]
           /\ command_queue' = [command_queue EXCEPT !["ws"] = PushAll(@, raws, pushed["ws"])]
           /\ pushed' = [pushed EXCEPT !["ws"] = @ + Len(raws)]
           /\ wsLog' = [wsLog EXCEPT ![c] = @ \o done.frames]
           /\ IF done.closed
              THEN WsClose(c)
              ELSE /\ recv_buffers' = [recv_buffers EXCEPT ![c] = done.buf]
                   /\ UNCHANGED <<client_sockets, closed>>
    /\ UNCHANGED <<snapVars, hostVars, ws_enabled, command_mutex, serverVars, readerVars, inputVars,
                   lifeVars, acc_pc, conns, hs, shook, wsSent, castVars, outVars,
                   writeLog, ctrAtCall, atUpdateEnd, atTickEnd, atLock, handed, hostOut>>

\* ServerLoop, read from clients: recv(s) returns 0 (the client has closed), or
\* fails with an error other than would-block (the connection is lost)
WsRecvEnd(c) ==
    /\ WsIdle
    /\ c \in client_sockets["ws"]
    /\ \E n \in {0, 0 - 1} :
        /\ n = 0 => inflight[c] = <<Eof>>
        /\ n < 0 => env.resets
    /\ WsClose(c)
    /\ UNCHANGED <<snapVars, hostVars, queueVars, serverVars, readerVars, inputVars, lifeVars,
                   acc_pc, conns, hs, inflight, shook, wsSent, wsLog, castVars, outVars,
                   historyVars>>

WsNext ==
    \/ WsAcceptBegin
    \/ WsHandshakeRecv
    \/ WsHandshakeFail
    \/ WsHandshakeDone
    \/ \E c \in DOMAIN inflight : WsClientSend(c)
    \/ \E c \in DOMAIN inflight : WsClientClose(c)
    \/ \E c \in DOMAIN inflight : WsRecv(c)
    \/ \E c \in DOMAIN inflight : WsRecvEnd(c)

\* ---------------------------------------------------------------- variable registry
\* VariableMapper(): the entries of name_to_index for the names of the model
\* and for the three names that stand for Controls.Trim, with the values of
\* enum VariableIndex
NameToIndex ==
    [name \in RegistryNames \cup {"Controls.TrimStep", "Controls.TrimMove", "Controls.TrimWheel"} |->
        CASE name = IdAltitude -> 1
          [] name = IdThrottle -> 192
          [] name = IdTrim -> 240
          [] name = "Controls.TrimStep" -> 241
          [] name = "Controls.TrimMove" -> 242
          [] name = "Controls.TrimWheel" -> 350
          [] name = IdLeftDoor -> 352
          [] name = IdLeftDoorHandle -> 353
          [] name = IdLeftWindow -> 356]
\* hash_to_index: no statement of the program inserts into it
HashToIndex == [hash \in {} |-> 0]
\* The 64-bit string hash of a name, an equality key
HashOf(name) == <<"hash", name>>

\* int GetIndex(const std::string& name) const
GetIndexByName(name) ==
    IF name \in DOMAIN NameToIndex THEN NameToIndex[name] ELSE 0 - 1
\* int GetIndex(uint64_t hash) const
GetIndexByHash(hash) ==
    IF hash \in DOMAIN HashToIndex THEN HashToIndex[hash] ELSE 0 - 1

\* The names the callers ask for: the registered ones, one that is not
\* registered and the empty string
QueryNames == DOMAIN NameToIndex \cup {IdUnknown, ""}

\* A caller looks a name up
LookupName ==
    /\ Len(lookups) < MaxLookups
    /\ \E name \in QueryNames :
        lookups' = Append(lookups, [by |-> "name", name |-> name,
                                    index |-> GetIndexByName(name)])
    /\ UNCHANGED <<snapVars, hostVars, queueVars, serverVars, readerVars, env, stringVars,
                   portVars, threadVars, lifeVars, netVars, outVars, historyVars>>

\* A caller looks the hash of a name up
LookupHash ==
    /\ Len(lookups) < MaxLookups
    /\ \E name \in QueryNames :
        lookups' = Append(lookups, [by |-> "hash", name |-> name,
                                    index |-> GetIndexByHash(HashOf(name))])
    /\ UNCHANGED <<snapVars, hostVars, queueVars, serverVars, readerVars, env, stringVars,
                   portVars, threadVars, lifeVars, netVars, outVars, historyVars>>

\* ---------------------------------------------------------------- string fields
\* The byte index of the first terminator of `bytes`, Len(bytes) + 1 if none
Terminator(bytes) ==
    LET zeros == {i \in DOMAIN bytes : bytes[i] = 0}
    IN IF zeros = {} THEN Len(bytes) + 1 ELSE CHOOSE i \in zeros : \A j \in zeros : i <= j

\* std::string value = tm_value.c_str(): the bytes before the first terminator
CStr(bytes) == SubSeq(bytes, 1, Terminator(bytes) - 1)

\* strncpy_s(destination, dest_size, source, _TRUNCATE): at most dest_size - 1
\* bytes of source and a terminator; the bytes after it stay as they were, or
\* are filled with 0xFE by the debug runtime
StrncpyTruncate(destination, dest_size, source, fill) ==
    LET n == IF Len(source) < dest_size THEN Len(source) ELSE dest_size - 1
    IN [i \in 1..dest_size |->
          IF i <= n THEN source[i]
          ELSE IF i = n + 1 THEN 0
          ELSE IF fill THEN 254 ELSE destination[i]]

\* The sanitizing loop: up to the first terminator, bytes below 32 and 127
\* become spaces; then the last byte is set to 0
Sanitize(destination, dest_size) ==
    [i \in 1..dest_size |->
        IF i = dest_size THEN 0
        ELSE IF i < Terminator(destination)
                /\ (destination[i] < 32 \/ destination[i] = 127) THEN 32
        ELSE destination[i]]

\* The default value the handlers of the identifiers pass: ""
DefaultIdentifier == <<>>

\* ProcessStringMessage: the destination after `message` is applied
ProcessStringMessage(message, destination, dest_size, default_value, fill) ==
    LET value == CStr(message.val)
        source == IF /\ message.dtype \in {"String", "String8"}
                     /\ ~message.throws
                     /\ value # <<>>
                     /\ Len(value) < dest_size
                  THEN value ELSE default_value
    IN Sanitize(StrncpyTruncate(destination, dest_size, source, fill), dest_size)

\* The strings the simulator sends: the letters A, B, C... up to a length,
\* with one byte of them replaced by a control byte, DEL, a terminator, a
\* space or a byte above 127, or with none replaced
OddBytes == {0, 1, 32, 127, 200}
Letters(n, at, byte) == [i \in 1..n |-> IF i = at THEN byte ELSE 64 + i]
Strings ==
    UNION {{Letters(n, at, byte) : at \in 0..n, byte \in OddBytes} : n \in 0..MaxStringLen}

\* A string message: data type, bytes; throws: GetString raises
StringMessages ==
    [dtype : {"String"}, val : Strings, throws : {FALSE}]
    \cup [dtype : {"String8"}, val : {Letters(n, 0, 0) : n \in 0..MaxStringLen}, throws : {FALSE}]
    \cup [dtype : {"String"}, val : {Letters(2, 0, 0)}, throws : {TRUE}]
    \cup [dtype : {"Double"}, val : {<<>>}, throws : {FALSE}]

\* The simulator sends Aircraft.NearestAirportIdentifier: ProcessMessage
\* hands it to ProcessStringMessage with the field, its size and ""
NearestAirportIdentifier ==
    /\ lastString.n < MaxStrings
    /\ \E message \in StringMessages, fill \in BOOLEAN :
        /\ aircraft_nearest_airport_id' =
              ProcessStringMessage(message, aircraft_nearest_airport_id, AirportIdBytes,
                                   DefaultIdentifier, fill)
        /\ lastString' = [n |-> lastString.n + 1, dtype |-> message.dtype,
                          val |-> message.val, throws |-> message.throws]
    /\ UNCHANGED <<snapVars, hostVars, queueVars, serverVars, readerVars, env, lookups,
                   portVars, threadVars, lifeVars, netVars, outVars, historyVars>>

\* ---------------------------------------------------------------- TCP command connections
\* What a command client writes, segment by segment, before it closes: nothing,
\* a command in one segment, the same command in two, one longer than the
\* buffer
Scripts ==
    {<<>>, <<DoorText>>, <<SubSeq(DoorText, 1, 1), SubSeq(DoorText, 2, 3)>>,
     <<[i \in 1..(CommandBufferBytes + 1) |-> 65]>>}

RECURSIVE Concat(_)
Concat(segments) ==
    IF segments = <<>> THEN <<>> ELSE Head(segments) \o Concat(Tail(segments))

\* A client connects to the command port; the connection waits in the backlog
PortConnect ==
    /\ cmd_client.state = "none"
    /\ tcp_server.command_thread = "running"
    /\ cmdsLeft > 0
    /\ cmdsLeft' = cmdsLeft - 1
    /\ \E script \in Scripts :
        cmd_client' = [state |-> "queued", todo |-> script, inflight |-> <<>>, eof |-> FALSE]
    /\ cmdLog' = Append(cmdLog, [written |-> <<>>, enqueued |-> <<>>, closed |-> FALSE])
    /\ UNCHANGED <<snapVars, hostVars, queueVars, srv_pc, srv_cmd, readerVars, env, lookups,
                   stringVars, threadVars, lifeVars, netVars, outVars, historyVars>>

\* The client writes its next segment
PortWrite ==
    /\ cmd_client.state \in {"queued", "open"}
    /\ cmd_client.todo # <<>>
    /\ cmd_client' = [cmd_client EXCEPT !.todo = Tail(@),
                                        !.inflight = @ \o Head(cmd_client.todo)]
    /\ cmdLog' = [cmdLog EXCEPT ![Len(cmdLog)].written = @ \o Head(cmd_client.todo)]
    /\ UNCHANGED <<snapVars, hostVars, queueVars, serverVars, readerVars, env, lookups,
                   stringVars, threadVars, lifeVars, netVars, outVars, historyVars>>

\* The client has written everything and closes its end
PortClose ==
    /\ cmd_client.state \in {"queued", "open"}
    /\ cmd_client.todo = <<>>
    /\ ~cmd_client.eof
    /\ cmd_client' = [cmd_client EXCEPT !.eof = TRUE]
    /\ UNCHANGED <<snapVars, hostVars, queueVars, serverVars, readerVars, env, lookups,
                   stringVars, threadVars, cmdLog, lifeVars, netVars, outVars, historyVars>>

\* CommandLoop: select reports the listening socket, accept returns the client
\* and running is true; the thread enters recv
CmdAccept ==
    /\ srv_pc["tcp"] = "idle"
    /\ tcp_server.command_thread = "running"
    /\ tcp_server.running
    /\ cmd_client.state = "queued"
    /\ cmd_client' = [cmd_client EXCEPT !.state = "open"]
    /\ srv_pc' = [srv_pc EXCEPT !["tcp"] = "recv"]
    /\ UNCHANGED <<snapVars, hostVars, queueVars, srv_cmd, cmdsLeft, readerVars, env, lookups,
                   stringVars, threadVars, cmdLog, lifeVars, netVars, outVars, historyVars>>

\* recv(client, buffer, sizeof(buffer) - 1, 0): what has arrived so far, at
\* most 1023 bytes of it
Recv(arrived) ==
    SubSeq(arrived, 1, IF Len(arrived) < CommandBufferBytes THEN Len(arrived)
                       ELSE CommandBufferBytes - 1)

\* CommandLoop: recv returns bytes; buffer[bytes_received] = 0 and
\* ProcessCommand(std::string(buffer)) takes command_mutex
CmdRecv ==
    /\ srv_pc["tcp"] = "recv"
    /\ cmd_client.state = "open"
    /\ cmd_client.inflight # <<>>
    /\ command_mutex["tcp"] = "free"
    /\ LET buffer == Recv(cmd_client.inflight)
       IN /\ cmd_client' = [cmd_client EXCEPT
                              !.inflight = SubSeq(@, Len(buffer) + 1, Len(@))]
          /\ srv_cmd' = [srv_cmd EXCEPT !["tcp"] =
                           [TextOf(CStr(buffer)) EXCEPT !.src = <<"tcp", pushed["tcp"] + 1>>]]
          /\ cmdLog' = [cmdLog EXCEPT ![Len(cmdLog)].enqueued = Append(@, CStr(buffer))]
    /\ command_mutex' = [command_mutex EXCEPT !["tcp"] = "server"]
    /\ srv_pc' = [srv_pc EXCEPT !["tcp"] = "push"]
    /\ UNCHANGED <<snapVars, hostVars, ws_enabled, command_queue, cmdsLeft, readerVars, env,
                   lookups, stringVars, threadVars, lifeVars, netVars, outVars, historyVars>>

\* CommandLoop: ProcessCommand pushes the string and releases the mutex; then
\* closesocket(client)
CmdPushClose ==
    /\ srv_pc["tcp"] = "push"
    /\ cmd_client.state = "open"
    /\ command_queue' = [command_queue EXCEPT !["tcp"] = PushBack(@, srv_cmd["tcp"])]
    /\ pushed' = [pushed EXCEPT !["tcp"] = @ + 1]
    /\ command_mutex' = [command_mutex EXCEPT !["tcp"] = "free"]
    /\ srv_pc' = [srv_pc EXCEPT !["tcp"] = "idle"]
    /\ srv_cmd' = [srv_cmd EXCEPT !["tcp"] = NoCommand]
    /\ cmd_client' = [cmd_client EXCEPT !.state = "closed"]
    /\ cmdLog' = [cmdLog EXCEPT ![Len(cmdLog)].closed = TRUE]
    /\ UNCHANGED <<snapVars, hostVars, ws_enabled, cmdsLeft, readerVars, env, lookups,
                   stringVars, threadVars, lifeVars, netVars, outVars, writeLog, ctrAtCall, atUpdateEnd,
                   atTickEnd, atLock, handed, hostOut>>

\* CommandLoop: recv returns 0 because the client has closed without sending
\* more; closesocket(client)
CmdRecvEof ==
    /\ srv_pc["tcp"] = "recv"
    /\ cmd_client.state = "open"
    /\ cmd_client.inflight = <<>>
    /\ cmd_client.eof
    /\ srv_pc' = [srv_pc EXCEPT !["tcp"] = "idle"]
    /\ cmd_client' = [cmd_client EXCEPT !.state = "closed"]
    /\ cmdLog' = [cmdLog EXCEPT ![Len(cmdLog)].closed = TRUE]
    /\ UNCHANGED <<snapVars, hostVars, queueVars, srv_cmd, cmdsLeft, readerVars, env, lookups,
                   stringVars, threadVars, lifeVars, netVars, outVars, historyVars>>

\* The closed connection is gone; the port is free for the next client
PortGone ==
    /\ cmd_client.state = "closed"
    /\ cmd_client' = NoClient
    /\ UNCHANGED <<snapVars, hostVars, queueVars, serverVars, readerVars, env, lookups,
                   stringVars, threadVars, cmdLog, lifeVars, netVars, outVars, historyVars>>

\* ---------------------------------------------------------------- threads and mutexes
\* The host thread and the three server threads, one step at a time: every
\* lock, every system call that can block and every closesocket is a step
Threads == {"host", "tcp server", "tcp command", "ws"}
Mutexes == {"tcp.clients_mutex", "tcp.command_mutex", "ws.clients_mutex", "ws.command_mutex",
            "data_mutex"}
clients_mutex(ch) == IF ch = "tcp" THEN "tcp.clients_mutex" ELSE "ws.clients_mutex"
queue_mutex(ch) == IF ch = "tcp" THEN "tcp.command_mutex" ELSE "ws.command_mutex"

\* The listening sockets: server_socket of either server, cmd_socket of CommandLoop
Listener(port) == <<"listen", CASE port = "tcp" -> 1 [] port = "cmd" -> 2 [] port = "ws" -> 3>>
Ports == {"tcp", "cmd", "ws"}
\* The thread that accepts on a port, and the kind of its client sockets
Acceptor(port) == CASE port = "tcp" -> "tcp server" [] port = "cmd" -> "tcp command"
                    [] port = "ws" -> "ws"
\* A socket handle as socket() or accept() returns it
NewSocket == [open |-> TRUE, closes |-> 0, rx |-> <<>>, peer |-> "up"]
\* The locals of a thread: snapshot and to_remove of BroadcastData and
\* ServerLoop, the sockets it has still to visit, the socket at hand (client,
\* s) and the frames ProcessWebSocketFrames has still to act on
NoLocals == [snapshot |-> {}, to_remove |-> {}, todo |-> {}, s |-> <<"none", 0>>, frames |-> <<>>]

Idle == <<"", "idle">>
Stopped == <<"", "stopped">>
Exited == <<"", "exited">>
At(t, where) == tpc[t] = where
Jump(t, where) == tpc' = [tpc EXCEPT ![t] = where]
\* The mutexes thread t holds
Held(t) == {m \in Mutexes : mutexes[m] = t}
\* Thread t makes the system calls `names`
Call(t, names) ==
    syscalls' = [syscalls EXCEPT ![t] = [calls |-> names, holding |-> Held(t)]]
NoCalls == [calls |-> {}, holding |-> {}]
Unlock(ms) == mutexes' = [m \in Mutexes |-> IF m \in ms THEN "free" ELSE mutexes[m]]
\* closesocket(s) for every s of S
CloseSockets(S) ==
    sock' = [s \in DOMAIN sock |->
                IF s \in S THEN [sock[s] EXCEPT !.open = FALSE, !.closes = @ + 1] ELSE sock[s]]

\* What the thread model leaves alone
coarseVars == <<snapVars, hostVars, ws_enabled, command_mutex, serverVars, readerVars, env,
                lookups, stringVars, portVars, lifeVars, acc_pc, conns, closed, wsVars, castVars,
                outVars, historyVars>>

\* std::lock_guard constructors: thread, where it is, the mutex, where it goes
LockEdge(t, from, m, to) == [thread |-> t, from |-> from, mutex |-> m, to |-> to]
LockEdges ==
    {LockEdge("host", <<"", "ud_lock">>, "data_mutex", <<"", "ud_body">>)}
    \cup {LockEdge("host", <<ch, "count_lock">>, clients_mutex(ch), <<ch, "count">>) : ch \in Chan}
    \cup {LockEdge("host", <<ch, "bc_lock">>, clients_mutex(ch), <<ch, "bc_snap">>) : ch \in Chan}
    \cup {LockEdge("host", <<ch, "bc_lock2">>, clients_mutex(ch), <<ch, "bc_remove">>) : ch \in Chan}
    \cup {LockEdge("host", <<ch, "cmd_lock">>, queue_mutex(ch), <<ch, "cmd_drain">>) : ch \in Chan}
    \cup {LockEdge("host", <<ch, "stop_lock">>, clients_mutex(ch), <<ch, "stop_clients">>) : ch \in Chan}
    \cup {LockEdge("host", <<"ws", "stop_qlock">>, "ws.command_mutex", <<"ws", "stop_clear">>),
          LockEdge("tcp server", <<"tcp", "push_lock">>, "tcp.clients_mutex", <<"tcp", "push">>),
          LockEdge("tcp command", <<"cmd", "cmd_lock">>, "tcp.command_mutex", <<"cmd", "cmd_push">>),
          LockEdge("ws", <<"ws", "snap_lock">>, "ws.clients_mutex", <<"ws", "snap">>),
          LockEdge("ws", <<"ws", "add_lock">>, "ws.clients_mutex", <<"ws", "add">>),
          LockEdge("ws", <<"ws", "fc_lock">>, "ws.clients_mutex", <<"ws", "fc_erase">>),
          LockEdge("ws", <<"ws", "q_lock">>, "ws.command_mutex", <<"ws", "q_push">>),
          LockEdge("ws", <<"ws", "end_lock">>, "ws.clients_mutex", <<"ws", "end_close">>)}

\* A thread takes the mutex it is waiting for
Acquire ==
    \E e \in LockEdges :
        /\ At(e.thread, e.from)
        /\ mutexes[e.mutex] = "free"
        /\ mutexes' = [mutexes EXCEPT ![e.mutex] = e.thread]
        /\ Jump(e.thread, e.to)
        /\ UNCHANGED <<coarseVars, command_queue, client_sockets, recv_buffers, running,
                       server_socket, local, sock, backlog, budget, syscalls>>

\* --- the host thread: AeroflyBridge::Update
\* The simulator calls the tick entry point
ThreadTick ==
    /\ At("host", Idle)
    /\ budget.ticks > 0
    /\ budget' = [budget EXCEPT !.ticks = @ - 1]
    /\ Jump("host", <<"", "ud_lock">>)
    /\ UNCHANGED <<coarseVars, command_queue, client_sockets, recv_buffers, running,
                   server_socket, mutexes, local, sock, backlog, syscalls>>

\* UpdateData: the body under data_mutex; the lock_guard is destroyed
ThreadUpdateData ==
    /\ At("host", <<"", "ud_body">>)
    /\ Unlock({"data_mutex"})
    /\ Jump("host", <<"tcp", "count_lock">>)
    /\ UNCHANGED <<coarseVars, command_queue, client_sockets, recv_buffers, running,
                   server_socket, local, sock, backlog, budget, syscalls>>

\* Where Update goes after the broadcast of a server
AfterBroadcastOf(ch) == IF ch = "tcp" THEN <<"ws", "count_lock">> ELSE <<"tcp", "cmd_lock">>

\* GetClientCount returns; BroadcastData is called if there are clients
\* (the interval has elapsed)
ThreadCount(ch) ==
    /\ At("host", <<ch, "count">>)
    /\ Unlock({clients_mutex(ch)})
    /\ Jump("host", IF client_sockets[ch] # {} /\ running[ch] THEN <<ch, "bc_lock">>
                    ELSE AfterBroadcastOf(ch))
    /\ UNCHANGED <<coarseVars, command_queue, client_sockets, recv_buffers, running,
                   server_socket, local, sock, backlog, budget, syscalls>>

\* A BroadcastData that sends inside its first critical section
ThreadSnapshotKeepingLock(ch) ==
    /\ At("host", <<ch, "bc_snap">>)
    /\ local' = [local EXCEPT !["host"] = [NoLocals EXCEPT !.snapshot = client_sockets[ch],
                                                          !.todo = client_sockets[ch]]]
    /\ Jump("host", <<ch, "bc_send">>)
    /\ UNCHANGED <<coarseVars, command_queue, client_sockets, recv_buffers, running,
                   server_socket, mutexes, sock, backlog, budget, syscalls>>

\* BroadcastData: snapshot = client_sockets under clients_mutex
ThreadSnapshot(ch) ==
    /\ At("host", <<ch, "bc_snap">>)
    /\ local' = [local EXCEPT !["host"] = [NoLocals EXCEPT !.snapshot = client_sockets[ch],
                                                          !.todo = client_sockets[ch]]]
    /\ Unlock({clients_mutex(ch)})
    /\ Jump("host", <<ch, "bc_send">>)
    /\ UNCHANGED <<coarseVars, command_queue, client_sockets, recv_buffers, running,
                   server_socket, sock, backlog, budget, syscalls>>

\* Whether send on s fails: it does on a closed handle, and it may once the
\* peer has closed or reset the connection
SendFails(s) ==
    IF ~sock[s].open THEN {TRUE}
    ELSE IF sock[s].peer = "gone" THEN {TRUE, FALSE} ELSE {FALSE}

\* BroadcastData: send to the next socket of the snapshot; a failed socket
\* goes to to_remove
ThreadSend(ch) ==
    /\ At("host", <<ch, "bc_send">>)
    /\ \E s \in local["host"].todo, fails \in BOOLEAN :
        /\ fails \in SendFails(s)
        /\ local' = [local EXCEPT !["host"].todo = @ \ {s},
                                  !["host"].to_remove = IF fails THEN @ \cup {s} ELSE @]
    /\ Call("host", {"send"})
    /\ UNCHANGED <<coarseVars, command_queue, client_sockets, recv_buffers, running,
                   server_socket, tpc, mutexes, sock, backlog, budget>>

\* BroadcastData: the loop over the snapshot is over
ThreadSendDone(ch) ==
    /\ At("host", <<ch, "bc_send">>)
    /\ local["host"].todo = {}
    /\ Jump("host", IF local["host"].to_remove # {} THEN <<ch, "bc_lock2">>
                    ELSE AfterBroadcastOf(ch))
    /\ syscalls' = [syscalls EXCEPT !["host"] = NoCalls]
    /\ local' = [local EXCEPT !["host"].snapshot = {}]
    /\ UNCHANGED <<coarseVars, command_queue, client_sockets, recv_buffers, running,
                   server_socket, mutexes, sock, backlog, budget>>

\* BroadcastData, second critical section. TCP: a socket of to_remove that
\* is still in client_sockets is closed and erased. WebSocket: every socket
\* of to_remove is closed, then erased from client_sockets and recv_buffers
ThreadRemove(ch) ==
    /\ At("host", <<ch, "bc_remove">>)
    /\ LET dead == local["host"].to_remove
       IN /\ CloseSockets(IF ch = "tcp" THEN dead \cap client_sockets[ch] ELSE dead)
          /\ client_sockets' = [client_sockets EXCEPT ![ch] = @ \ dead]
          /\ recv_buffers' = IF ch = "ws" THEN Erase(recv_buffers, dead) ELSE recv_buffers
    /\ Unlock({clients_mutex(ch)})
    /\ Jump("host", AfterBroadcastOf(ch))
    /\ local' = [local EXCEPT !["host"] = NoLocals]
    /\ UNCHANGED <<coarseVars, command_queue, running, server_socket, backlog, budget,
                   syscalls>>

\* GetPendingCommands: the queue is drained under command_mutex
ThreadDrain(ch) ==
    /\ At("host", <<ch, "cmd_drain">>)
    /\ command_queue' = [command_queue EXCEPT ![ch] = <<>>]
    /\ Unlock({queue_mutex(ch)})
    /\ Jump("host", IF ch = "tcp" THEN <<"ws", "cmd_lock">> ELSE Idle)
    /\ UNCHANGED <<coarseVars, client_sockets, recv_buffers, running, server_socket, local,
                   sock, backlog, budget, syscalls>>

\* --- the host thread: AeroflyBridge::Shutdown
\* WebSocketServerInterface::Stop: running = false and the listening socket
\* is closed; the thread is then joined
ThreadWsStop ==
    /\ At("host", Idle)
    /\ budget.stops > 0
    /\ budget' = [budget EXCEPT !.stops = @ - 1]
    /\ running' = [running EXCEPT !["ws"] = FALSE]
    /\ CloseSockets({server_socket["ws"]} \cap DOMAIN sock)
    /\ server_socket' = [server_socket EXCEPT !["ws"] = <<"invalid", 0>>]
    /\ Jump("host", <<"ws", "join">>)
    /\ UNCHANGED <<coarseVars, command_queue, client_sockets, recv_buffers, mutexes, local,
                   backlog, syscalls>>

\* The joins of Stop: where the host thread is, the thread it joins, where
\* it goes
JoinEdges ==
    {[at |-> <<"ws", "join">>, of |-> "ws", to |-> <<"ws", "stop_lock">>],
     [at |-> <<"tcp", "join_server">>, of |-> "tcp server", to |-> <<"tcp", "join_command">>],
     [at |-> <<"tcp", "join_command">>, of |-> "tcp command", to |-> Stopped]}

\* thread.join() returns once the thread has left its loop
ThreadJoin ==
    /\ \E j \in JoinEdges :
        /\ At("host", j.at)
        /\ At(j.of, Exited)
        /\ Jump("host", j.to)
    /\ UNCHANGED <<coarseVars, command_queue, client_sockets, recv_buffers, running,
                   server_socket, mutexes, local, sock, backlog, budget, syscalls>>

\* A TCP Stop that joins the threads inside its clients_mutex scope
ThreadStopClientsKeepingLock(ch) ==
    /\ At("host", <<ch, "stop_clients">>)
    /\ CloseSockets(client_sockets[ch])
    /\ client_sockets' = [client_sockets EXCEPT ![ch] = {}]
    /\ IF ch = "ws"
       THEN /\ recv_buffers' = <<>>
            /\ Jump("host", <<"ws", "stop_qlock">>)
            /\ UNCHANGED mutexes
       ELSE /\ Jump("host", <<"tcp", "join_server">>)
            /\ UNCHANGED <<recv_buffers, mutexes>>
    /\ UNCHANGED <<coarseVars, command_queue, running, server_socket, local, backlog, budget,
                   syscalls>>

\* Stop: every client socket is closed and the client set cleared, under
\* clients_mutex. TCP releases it and goes on to join the threads; WebSocket
\* also clears recv_buffers and keeps the mutex while it locks command_mutex
ThreadStopClients(ch) ==
    /\ At("host", <<ch, "stop_clients">>)
    /\ CloseSockets(client_sockets[ch])
    /\ client_sockets' = [client_sockets EXCEPT ![ch] = {}]
    /\ IF ch = "ws"
       THEN /\ recv_buffers' = <<>>
            /\ Jump("host", <<"ws", "stop_qlock">>)
            /\ UNCHANGED mutexes
       ELSE /\ Unlock({"tcp.clients_mutex"})
            /\ Jump("host", <<"tcp", "join_server">>)
            /\ UNCHANGED recv_buffers
    /\ UNCHANGED <<coarseVars, command_queue, running, server_socket, local, backlog, budget,
                   syscalls>>

\* WebSocket Stop: the command queue is cleared; both lock_guards are destroyed
ThreadWsStopClear ==
    /\ At("host", <<"ws", "stop_clear">>)
    /\ command_queue' = [command_queue EXCEPT !["ws"] = <<>>]
    /\ Unlock({"ws.clients_mutex", "ws.command_mutex"})
    /\ Jump("host", <<"tcp", "stop">>)
    /\ UNCHANGED <<coarseVars, client_sockets, recv_buffers, running, server_socket, local,
                   sock, backlog, budget, syscalls>>

\* TCPServerInterface::Stop: running = false; the listening socket is shut
\* down and closed
ThreadTcpStop ==
    /\ At("host", <<"tcp", "stop">>)
    /\ running' = [running EXCEPT !["tcp"] = FALSE]
    /\ CloseSockets({server_socket["tcp"]} \cap DOMAIN sock)
    /\ server_socket' = [server_socket EXCEPT !["tcp"] = <<"invalid", 0>>]
    /\ Jump("host", <<"tcp", "stop_lock">>)
    /\ UNCHANGED <<coarseVars, command_queue, client_sockets, recv_buffers, mutexes, local,
                   backlog, budget, syscalls>>

\* --- the accept threads of the TCP server: ServerLoop and CommandLoop
\* while (running)
LoopTop(port) ==
    /\ port \in {"tcp", "cmd"}
    /\ At(Acceptor(port), <<port, "top">>)
    /\ IF running["tcp"]
       THEN Jump(Acceptor(port), <<port, "select">>) /\ UNCHANGED sock
       ELSE /\ Jump(Acceptor(port), Exited)
            /\ CloseSockets(IF port = "cmd" THEN {Listener("cmd")} ELSE {})
    /\ local' = [local EXCEPT ![Acceptor(port)] = NoLocals]
    /\ syscalls' = [syscalls EXCEPT ![Acceptor(port)] = NoCalls]
    /\ UNCHANGED <<coarseVars, command_queue, client_sockets, recv_buffers, running,
                   server_socket, mutexes, backlog, budget>>

\* select on the listening socket returns: a connection is waiting, or Stop
\* has been called (time-out, or the socket has been closed). A time-out
\* with running true brings the thread back here
LoopSelect(port) ==
    /\ port \in {"tcp", "cmd"}
    /\ At(Acceptor(port), <<port, "select">>)
    /\ backlog[port] > 0 \/ ~running["tcp"]
    /\ Call(Acceptor(port), {"select"})
    /\ Jump(Acceptor(port), IF sock[Listener(port)].open /\ backlog[port] > 0
                            THEN <<port, "accept">> ELSE <<port, "top">>)
    /\ UNCHANGED <<coarseVars, command_queue, client_sockets, recv_buffers, running,
                   server_socket, mutexes, local, sock, backlog, budget>>

\* The handle accept returns for the next connection of a port
Accepted(port) == <<port, 1 + Cardinality({s \in DOMAIN sock : s[1] = port})>>

\* accept returns the client; if running is still true the data client is
\* added to the client set and the command client is read, otherwise the
\* handle is dropped
LoopAccept(port) ==
    /\ port \in {"tcp", "cmd"}
    /\ At(Acceptor(port), <<port, "accept">>)
    /\ Call(Acceptor(port), {"accept"})
    /\ backlog' = [backlog EXCEPT ![port] = @ - 1]
    /\ sock' = [s \in DOMAIN sock \cup {Accepted(port)} |->
                   IF s = Accepted(port) THEN NewSocket ELSE sock[s]]
    /\ local' = [local EXCEPT ![Acceptor(port)].s = Accepted(port)]
    /\ Jump(Acceptor(port), IF ~running["tcp"] THEN <<port, "top">>
                            ELSE IF port = "tcp" THEN <<"tcp", "push_lock">>
                            ELSE <<"cmd", "recv">>)
    /\ UNCHANGED <<coarseVars, command_queue, client_sockets, recv_buffers, running,
                   server_socket, mutexes, budget>>

\* ServerLoop: client_sockets.push_back(client_socket) under clients_mutex
TcpPushClient ==
    /\ At("tcp server", <<"tcp", "push">>)
    /\ client_sockets' = [client_sockets EXCEPT !["tcp"] = @ \cup {local["tcp server"].s}]
    /\ Unlock({"tcp.clients_mutex"})
    /\ Jump("tcp server", <<"tcp", "top">>)
    /\ UNCHANGED <<coarseVars, command_queue, recv_buffers, running, server_socket, local,
                   sock, backlog, budget, syscalls>>

\* CommandLoop: the one recv on the blocking client socket returns, with
\* bytes or without
CommandRecv ==
    /\ At("tcp command", <<"cmd", "recv">>)
    /\ LET s == local["tcp command"].s
       IN /\ sock[s].rx # <<>> \/ sock[s].peer # "up"
          /\ Call("tcp command", {"recv"})
          /\ IF sock[s].rx # <<>>
             THEN /\ sock' = [sock EXCEPT ![s].rx = Tail(@)]
                  /\ Jump("tcp command", <<"cmd", "cmd_lock">>)
             ELSE /\ Jump("tcp command", <<"cmd", "close">>)
                  /\ UNCHANGED sock
    /\ UNCHANGED <<coarseVars, command_queue, client_sockets, recv_buffers, running,
                   server_socket, mutexes, local, backlog, budget>>

\* ProcessCommand: command_queue.push under command_mutex
CommandPush ==
    /\ At("tcp command", <<"cmd", "cmd_push">>)
    /\ command_queue' = [command_queue EXCEPT !["tcp"] = PushBack(@, CmdLeftDoor)]
    /\ Unlock({"tcp.command_mutex"})
    /\ Jump("tcp command", <<"cmd", "close">>)
    /\ UNCHANGED <<coarseVars, client_sockets, recv_buffers, running, server_socket, local,
                   sock, backlog, budget, syscalls>>

\* CommandLoop: closesocket(client)
CommandClose ==
    /\ At("tcp command", <<"cmd", "close">>)
    /\ CloseSockets({local["tcp command"].s})
    /\ Jump("tcp command", <<"cmd", "top">>)
    /\ UNCHANGED <<coarseVars, command_queue, client_sockets, recv_buffers, running,
                   server_socket, mutexes, local, backlog, budget, syscalls>>

\* --- the WebSocket thread: ServerLoop
\* while (running)
WsLoopTop ==
    /\ At("ws", <<"ws", "top">>)
    /\ Jump("ws", IF running["ws"] THEN <<"ws", "snap_lock">> ELSE Exited)
    /\ local' = [local EXCEPT !["ws"] = NoLocals]
    /\ syscalls' = [syscalls EXCEPT !["ws"] = NoCalls]
    /\ UNCHANGED <<coarseVars, command_queue, client_sockets, recv_buffers, running,
                   server_socket, mutexes, sock, backlog, budget>>

\* snapshot = client_sockets under clients_mutex
WsSnapshot ==
    /\ At("ws", <<"ws", "snap">>)
    /\ local' = [local EXCEPT !["ws"] = [NoLocals EXCEPT !.snapshot = client_sockets["ws"]]]
    /\ Unlock({"ws.clients_mutex"})
    /\ Jump("ws", <<"ws", "select">>)
    /\ UNCHANGED <<coarseVars, command_queue, client_sockets, recv_buffers, running,
                   server_socket, sock, backlog, budget, syscalls>>

\* recv on s would return at once: bytes, an end of stream or a reset wait
Readable(s) == sock[s].rx # <<>> \/ sock[s].peer # "up"

\* select on the listening socket and the snapshot returns. A closed
\* handle in the set makes it fail, and the loop is left if running is true;
\* it is left too if running is false. Otherwise the sockets that are
\* readable are those the read loop will visit. A time-out with nothing
\* to do and the client set as it was brings the thread back here
WsSelect ==
    /\ At("ws", <<"ws", "select">>)
    /\ \/ ~running["ws"]
       \/ backlog["ws"] > 0
       \/ local["ws"].snapshot # client_sockets["ws"]
       \/ \E s \in local["ws"].snapshot : ~sock[s].open \/ Readable(s)
    /\ Call("ws", {"select"})
    /\ LET snapshot == local["ws"].snapshot
           failed == \E s \in snapshot : ~sock[s].open
       IN IF failed \/ ~running["ws"]
          THEN Jump("ws", Exited) /\ local' = [local EXCEPT !["ws"] = NoLocals]
          ELSE /\ local' = [local EXCEPT !["ws"].todo = {s \in snapshot : Readable(s)}]
               /\ Jump("ws", IF server_socket["ws"] = Listener("ws") /\ backlog["ws"] > 0
                             THEN <<"ws", "accept">> ELSE <<"ws", "read">>)
    /\ UNCHANGED <<coarseVars, command_queue, client_sockets, recv_buffers, running,
                   server_socket, mutexes, sock, backlog, budget>>

\* accept returns the client and HandleWebSocketHandshake runs: recv until
\* the headers are read, Sleep(5) while there is nothing to read, send of
\* the response. A failed handshake closes the client
WsAcceptHandshake ==
    /\ At("ws", <<"ws", "accept">>)
    /\ Call("ws", {"accept", "recv", "Sleep", "send"})
    /\ backlog' = [backlog EXCEPT !["ws"] = @ - 1]
    /\ local' = [local EXCEPT !["ws"].s = Accepted("ws")]
    /\ \E ok \in BOOLEAN :
        /\ sock' = [s \in DOMAIN sock \cup {Accepted("ws")} |->
                       IF s = Accepted("ws")
                       THEN (IF ok THEN NewSocket
                             ELSE [NewSocket EXCEPT !.open = FALSE, !.closes = 1])
                       ELSE sock[s]]
        /\ Jump("ws", IF ok THEN <<"ws", "add_lock">> ELSE <<"ws", "read">>)
    /\ UNCHANGED <<coarseVars, command_queue, client_sockets, recv_buffers, running,
                   server_socket, mutexes, budget>>

\* client_sockets.push_back(client); recv_buffers[client] = std::string()
WsAddClient ==
    /\ At("ws", <<"ws", "add">>)
    /\ client_sockets' = [client_sockets EXCEPT !["ws"] = @ \cup {local["ws"].s}]
    /\ recv_buffers' = [c \in DOMAIN recv_buffers \cup {local["ws"].s} |->
                           IF c = local["ws"].s THEN <<>> ELSE recv_buffers[c]]
    /\ Unlock({"ws.clients_mutex"})
    /\ Jump("ws", <<"ws", "read">>)
    /\ UNCHANGED <<coarseVars, command_queue, running, server_socket, local, sock, backlog,
                   budget, syscalls>>

\* The read loop: recv on the next readable socket of the snapshot returns
\* bytes, 0, or an error other than would-block (the handle is closed or the
\* connection reset)
WsRead ==
    /\ At("ws", <<"ws", "read">>)
    /\ \E s \in local["ws"].todo :
        /\ Call("ws", {"recv"})
        /\ IF sock[s].open /\ sock[s].rx # <<>>
           THEN /\ sock' = [sock EXCEPT ![s].rx = Tail(@)]
                /\ local' = [local EXCEPT !["ws"].todo = @ \ {s}, !["ws"].s = s,
                                          !["ws"].frames = <<Head(sock[s].rx)>>]
                /\ Jump("ws", <<"ws", "append">>)
           ELSE /\ local' = [local EXCEPT !["ws"].todo = @ \ {s}, !["ws"].s = s]
                /\ Jump("ws", <<"ws", "end_lock">>)
                /\ UNCHANGED sock
    /\ UNCHANGED <<coarseVars, command_queue, client_sockets, recv_buffers, running,
                   server_socket, mutexes, backlog, budget>>

\* The read loop is over
WsReadDone ==
    /\ At("ws", <<"ws", "read">>)
    /\ local["ws"].todo = {}
    /\ Jump("ws", <<"ws", "top">>)
    /\ UNCHANGED <<coarseVars, command_queue, client_sockets, recv_buffers, running,
                   server_socket, mutexes, local, sock, backlog, budget, syscalls>>

\* recv_buffers[s].append(buf, buf + n): operator[] inserts an empty buffer
\* if s has none; no mutex is held
WsAppend ==
    /\ At("ws", <<"ws", "append">>)
    /\ LET s == local["ws"].s
           old == IF s \in DOMAIN recv_buffers THEN recv_buffers[s] ELSE <<>>
       IN recv_buffers' = [c \in DOMAIN recv_buffers \cup {s} |->
                              IF c = s THEN old \o local["ws"].frames[1] ELSE recv_buffers[c]]
    /\ Jump("ws", <<"ws", "parse">>)
    /\ UNCHANGED <<coarseVars, command_queue, client_sockets, running, server_socket, mutexes,
                   local, sock, backlog, budget, syscalls>>

\* ProcessWebSocketFrames: the buffer is looked up and the complete frames
\* taken from it; no mutex is held
WsParse ==
    /\ At("ws", <<"ws", "parse">>)
    /\ LET s == local["ws"].s
       IN IF s \notin DOMAIN recv_buffers
          THEN /\ Jump("ws", <<"ws", "read">>)
               /\ UNCHANGED <<recv_buffers, local>>
          ELSE LET done == ProcessWebSocketFrames(NothingProcessed(recv_buffers[s]))
               IN /\ recv_buffers' = [recv_buffers EXCEPT ![s] = done.buf]
                  /\ local' = [local EXCEPT !["ws"].frames = done.frames]
                  /\ Jump("ws", <<"ws", "frame">>)
    /\ UNCHANGED <<coarseVars, command_queue, client_sockets, running, server_socket, mutexes,
                   sock, backlog, budget, syscalls>>

\* ProcessWebSocketFrames acts on the next frame: a close frame closes the
\* socket and goes for clients_mutex, a text frame goes for command_mutex, a
\* ping is answered with send, anything else is dropped
WsFrame ==
    /\ At("ws", <<"ws", "frame">>)
    /\ IF local["ws"].frames = <<>>
       THEN /\ Jump("ws", <<"ws", "read">>)
            /\ UNCHANGED <<local, sock, syscalls>>
       ELSE LET f == Head(local["ws"].frames)
            IN CASE f.opcode = OpClose ->
                      /\ CloseSockets({local["ws"].s})
                      /\ Jump("ws", <<"ws", "fc_lock">>)
                      /\ UNCHANGED <<local, syscalls>>
                 [] f.opcode = OpText ->
                      /\ Jump("ws", <<"ws", "q_lock">>)
                      /\ UNCHANGED <<local, sock, syscalls>>
                 [] f.opcode = OpPing ->
                      /\ Call("ws", {"send"})
                      /\ local' = [local EXCEPT !["ws"].frames = Tail(@)]
                      /\ UNCHANGED <<tpc, sock>>
                 [] OTHER ->
                      /\ local' = [local EXCEPT !["ws"].frames = Tail(@)]
                      /\ UNCHANGED <<tpc, sock, syscalls>>
    /\ UNCHANGED <<coarseVars, command_queue, client_sockets, recv_buffers, running,
                   server_socket, mutexes, backlog, budget>>

\* Close frame: the client and its buffer are erased under clients_mutex
\* and ProcessWebSocketFrames returns
WsFrameErase ==
    /\ At("ws", <<"ws", "fc_erase">>)
    /\ client_sockets' = [client_sockets EXCEPT !["ws"] = @ \ {local["ws"].s}]
    /\ recv_buffers' = Erase(recv_buffers, {local["ws"].s})
    /\ Unlock({"ws.clients_mutex"})
    /\ Jump("ws", <<"ws", "read">>)
    /\ UNCHANGED <<coarseVars, command_queue, running, server_socket, local, sock, backlog,
                   budget, syscalls>>

\* Text frame: command_queue.push(payload) under command_mutex
WsQueuePush ==
    /\ At("ws", <<"ws", "q_push">>)
    /\ command_queue' = [command_queue EXCEPT !["ws"] =
                            PushBack(@, TextOf(Head(local["ws"].frames).enq[1]))]
    /\ local' = [local EXCEPT !["ws"].frames = Tail(@)]
    /\ Unlock({"ws.command_mutex"})
    /\ Jump("ws", <<"ws", "frame">>)
    /\ UNCHANGED <<coarseVars, client_sockets, recv_buffers, running, server_socket, sock,
                   backlog, budget, syscalls>>

\* recv returned 0 or failed: under clients_mutex the socket is closed and
\* erased with its buffer
WsEndClose ==
    /\ At("ws", <<"ws", "end_close">>)
    /\ CloseSockets({local["ws"].s})
    /\ client_sockets' = [client_sockets EXCEPT !["ws"] = @ \ {local["ws"].s}]
    /\ recv_buffers' = Erase(recv_buffers, {local["ws"].s})
    /\ Unlock({"ws.clients_mutex"})
    /\ Jump("ws", <<"ws", "read">>)
    /\ UNCHANGED <<coarseVars, command_queue, running, server_socket, local, backlog, budget,
                   syscalls>>

\* --- the clients
\* A client connects to a port
PeerConnect(port) ==
    /\ budget.conns[port] > 0
    /\ sock[Listener(port)].open
    /\ budget' = [budget EXCEPT !.conns[port] = @ - 1]
    /\ backlog' = [backlog EXCEPT ![port] = @ + 1]
    /\ UNCHANGED <<coarseVars, command_queue, client_sockets, recv_buffers, running,
                   server_socket, tpc, mutexes, local, sock, syscalls>>

\* What a client sends in one piece: a WebSocket client a text frame, a ping
\* or a close frame, a command client a command
PeerChunks(s) ==
    IF s[1] = "ws" THEN {Encode(DoorFrame), Encode(PingFrame), Encode(CloseFrame)}
    ELSE IF s[1] = "cmd" THEN {DoorText} ELSE {}

\* A connected client sends
PeerSend(s) ==
    /\ s \in DOMAIN sock
    /\ s[1] \in budget.active
    /\ sock[s].open /\ sock[s].peer = "up"
    /\ budget.chunks > 0
    /\ budget' = [budget EXCEPT !.chunks = @ - 1]
    /\ \E chunk \in PeerChunks(s) : sock' = [sock EXCEPT ![s].rx = Append(@, chunk)]
    /\ UNCHANGED <<coarseVars, command_queue, client_sockets, recv_buffers, running,
                   server_socket, tpc, mutexes, local, backlog, syscalls>>

\* A connected client closes, or its connection is reset
PeerLeave(s) ==
    /\ s \in DOMAIN sock
    /\ s[1] # "listen"
    /\ s[1] \in budget.active
    /\ budget.leaves
    /\ sock[s].open /\ sock[s].peer = "up"
    /\ sock' = [sock EXCEPT ![s].peer = "gone"]
    /\ UNCHANGED <<coarseVars, command_queue, client_sockets, recv_buffers, running,
                   server_socket, tpc, mutexes, local, backlog, budget, syscalls>>

ThreadNext ==
    \/ Acquire
    \/ ThreadTick
    \/ ThreadUpdateData
    \/ \E ch \in Chan : ThreadCount(ch)
    \/ \E ch \in Chan : ThreadSnapshot(ch)
    \/ \E ch \in Chan : ThreadSend(ch)
    \/ \E ch \in Chan : ThreadSendDone(ch)
    \/ \E ch \in Chan : ThreadRemove(ch)
    \/ \E ch \in Chan : ThreadDrain(ch)
    \/ ThreadWsStop
    \/ ThreadJoin
    \/ \E ch \in Chan : ThreadStopClients(ch)
    \/ ThreadWsStopClear
    \/ ThreadTcpStop
    \/ \E port \in Ports : LoopTop(port)
    \/ \E port \in Ports : LoopSelect(port)
    \/ \E port \in Ports : LoopAccept(port)
    \/ TcpPushClient
    \/ CommandRecv
    \/ CommandPush
    \/ CommandClose
    \/ WsLoopTop
    \/ WsSnapshot
    \/ WsSelect
    \/ WsAcceptHandshake
    \/ WsAddClient
    \/ WsRead
    \/ WsReadDone
    \/ WsAppend
    \/ WsParse
    \/ WsFrame
    \/ WsFrameErase
    \/ WsQueuePush
    \/ WsEndClose
    \/ \E port \in Ports : PeerConnect(port)
    \/ \E s \in DOMAIN sock : PeerSend(s)
    \/ \E s \in DOMAIN sock : PeerLeave(s)

\* ---------------------------------------------------------------- external reader
\* A shared-memory consumer following the validity protocol: sample the header,
\* read the slots, sample the header again, accept only on 1,1 and equal counters
ReaderBegin ==
    /\ rd_pc \in {"idle", "accepted"}
    /\ readsLeft > 0
    /\ readsLeft' = readsLeft - 1
    /\ rd' = [RdIdle EXCEPT !.dv = data_valid, !.ctr = update_counter]
    /\ rd_pc' = "door"
    /\ UNCHANGED <<snapVars, hostVars, queueVars, serverVars, envVars, outVars, historyVars>>

ReaderDoor ==
    /\ rd_pc = "door"
    /\ rd' = [rd EXCEPT !.door = all_variables["C172_LEFT_DOOR"]]
    /\ rd_pc' = "window"
    /\ UNCHANGED <<snapVars, hostVars, queueVars, serverVars, readsLeft, envVars, outVars, historyVars>>

ReaderWindow ==
    /\ rd_pc = "window"
    /\ rd' = [rd EXCEPT !.window = all_variables["C172_LEFT_WINDOW"]]
    /\ rd_pc' = "check"
    /\ UNCHANGED <<snapVars, hostVars, queueVars, serverVars, readsLeft, envVars, outVars, historyVars>>

\* all_variables[] as the last UpdateData left it and as the last completed
\* command step left it
Committed ==
    (IF atUpdateEnd = NoSnapshot THEN {} ELSE {atUpdateEnd[2]})
    \cup (IF atTickEnd = NoSnapshot THEN {} ELSE {atTickEnd[1]})

ReaderCheck ==
    /\ rd_pc = "check"
    /\ IF rd.dv = 1 /\ data_valid = 1 /\ rd.ctr = update_counter
       THEN rd_pc' = "accepted" /\ rd' = rd
       ELSE rd_pc' = "idle" /\ rd' = RdIdle
    /\ UNCHANGED <<snapVars, hostVars, queueVars, serverVars, readsLeft, envVars, outVars, historyVars>>

\* ---------------------------------------------------------------- lifecycle
\* What one Initialize call meets: whether the shared memory can be created and
\* mapped, whether TCPServerInterface::Start succeeds, and whether the WebSocket
\* server is disabled by AEROFLY_BRIDGE_WS_ENABLE, fails to start, or starts
InitOutcomes ==
    {[shmOk |-> FALSE, tcpOk |-> FALSE, ws |-> "none"]}
    \cup {[shmOk |-> TRUE, tcpOk |-> t, ws |-> w] : t \in BOOLEAN, w \in {"disabled", "failed", "started"}}

\* An Initialize to which a TCP server that does not start is fatal too
InitializeNeedsTcp(o) == o.shmOk /\ o.tcpOk

\* AeroflyBridge::Initialize: false if shared_memory.Initialize() fails, true otherwise
InitializeReturns(o) == o.shmOk

hostRest == <<num_received, msgIdx, commands, command_messages, stepIdx, clock, ticks>>

\* Aerofly_FS_4_External_DLL_Init: g_bridge = new AeroflyBridge(); return g_bridge->Initialize()
DllInit ==
    /\ pc = "idle"
    /\ g_bridge = "null"
    /\ lifeLeft.init
    /\ lifeLeft' = [lifeLeft EXCEPT !.init = FALSE]
    /\ g_bridge' = "obj"
    /\ \E o \in InitOutcomes :
        /\ init' = [shmOk |-> o.shmOk, tcpOk |-> o.tcpOk, wsOk |-> o.ws = "started",
                    ret |-> InitializeReturns(o)]
        /\ IF o.shmOk
           THEN /\ pData' = "mapped"
                /\ data_valid' = 0
                /\ update_counter' = CounterZero
                /\ timestamp_us' = 0
                /\ fields' = ZeroSlots
                /\ all_variables' = ZeroSlots
                /\ tcp_server' = IF o.tcpOk THEN TcpStarted ELSE TcpStopped
                /\ wsa_refs' = IF o.tcpOk THEN wsa_refs + 1 ELSE wsa_refs
                /\ ws_enabled' = (o.ws = "started")
                /\ ws_server' = IF o.ws = "started" THEN WsStarted ELSE WsStopped
                /\ initialized' = InitializeReturns(o)
           ELSE /\ ws_enabled' = FALSE
                /\ initialized' = FALSE
                /\ UNCHANGED <<pData, snapVars, tcp_server, wsa_refs, ws_server>>
    /\ UNCHANGED <<pc, hostRest, command_queue, command_mutex, serverVars, readerVars, inputVars,
                   outVars, historyVars, phase, leaked, lifeLog, netVars>>

\* Aerofly_FS_4_External_DLL_Init while g_bridge already points to a bridge: the
\* pointer is overwritten by new AeroflyBridge() without a test, so the old
\* object is neither shut down nor deleted and keeps its threads, its sockets
\* and its view of the mapping; Initialize then runs on the new object, whose
\* members are as constructed (the listening sockets are opened with
\* SO_REUSEADDR, so bind may succeed or fail)
DllInitAgain ==
    /\ pc = "idle"
    /\ phase = "none"
    /\ g_bridge = "obj"
    /\ lifeLeft.again > 0
    /\ lifeLeft' = [lifeLeft EXCEPT !.again = @ - 1]
    /\ leaked' = Append(leaked, [initialized |-> initialized, pData |-> pData,
                                 tcp_server |-> tcp_server, ws_server |-> ws_server,
                                 client_sockets |-> client_sockets])
    /\ g_bridge' = "obj"
    /\ command_queue' = [ch \in Chan |-> <<>>]
    /\ command_mutex' = [ch \in Chan |-> "free"]
    /\ client_sockets' = [ch \in Chan |-> {}]
    /\ recv_buffers' = <<>>
    /\ last_broadcast_us' = [ch \in Chan |-> 0]
    /\ acc_pc' = "idle"
    /\ srv_pc' = [ch \in Chan |-> "idle"]
    /\ srv_cmd' = [ch \in Chan |-> NoCommand]
    /\ hs' = NoHandshake
    /\ \E o \in InitOutcomes :
        /\ init' = [shmOk |-> o.shmOk, tcpOk |-> o.tcpOk, wsOk |-> o.ws = "started",
                    ret |-> InitializeReturns(o)]
        /\ IF o.shmOk
           THEN /\ pData' = "mapped"
                /\ data_valid' = 0
                /\ update_counter' = CounterZero
                /\ timestamp_us' = 0
                /\ fields' = ZeroSlots
                /\ all_variables' = ZeroSlots
                /\ tcp_server' = IF o.tcpOk THEN TcpStarted ELSE TcpStopped
                /\ wsa_refs' = IF o.tcpOk THEN wsa_refs + 1 ELSE wsa_refs
                /\ ws_enabled' = (o.ws = "started")
                /\ ws_server' = IF o.ws = "started" THEN WsStarted ELSE WsStopped
                /\ initialized' = InitializeReturns(o)
           ELSE /\ pData' = "null"
                /\ tcp_server' = TcpStopped
                /\ ws_server' = WsStopped
                /\ ws_enabled' = FALSE
                /\ initialized' = FALSE
                /\ UNCHANGED <<snapVars, wsa_refs>>
    /\ UNCHANGED <<pc, hostRest, cmdsLeft, readerVars, inputVars, outVars, historyVars, phase,
                   lifeLog, conns, closed, inflight, shook, wsSent, wsLog, cast, lastAt, wire>>

\* Aerofly_FS_4_External_DLL_Update: if (!g_bridge || !g_bridge->IsInitialized())
\* both outputs are set to 0 and the tick returns
TickRejected ==
    /\ pc = "idle"
    /\ ticks < env.maxTicks
    /\ g_bridge = "null" \/ ~initialized
    /\ ticks' = ticks + 1
    /\ out_capacity' \in env.caps
    /\ sent_size' = 0
    /\ sent_num' = 0
    /\ UNCHANGED <<snapVars, pc, num_received, msgIdx, commands, command_messages, stepIdx, clock,
                   queueVars, serverVars, readerVars, envVars, historyVars>>

\* The handler positions of a tick from which an exception can unwind to the
\* catch (...) of Aerofly_FS_4_External_DLL_Update
InTick ==
    {UpdateDataOrder[i] : i \in 1..Len(UpdateDataOrder)}
    \cup {"tcp_bcast", "ws_bcast", "tcp_lock", "tcp_drain", "ws_lock", "ws_drain", "process", "step"}

\* catch (...): an exception thrown inside the tick (the lock guards release
\* what the host holds); both outputs are set to 0 and the tick returns
HostThrow ==
    /\ pc \in InTick
    /\ pc' = "idle"
    /\ sent_size' = 0
    /\ sent_num' = 0
    /\ command_mutex' = [ch \in Chan |-> IF command_mutex[ch] = "host" THEN "free" ELSE command_mutex[ch]]
    /\ commands' = <<>>
    /\ command_messages' = <<>>
    /\ stepIdx' = 0
    /\ UNCHANGED <<snapVars, num_received, msgIdx, clock, ticks, ws_enabled, command_queue,
                   serverVars, readerVars, envVars, out_capacity, historyVars>>

\* An AeroflyBridge::Shutdown that unmaps the shared memory before it stops the servers
ShutdownOrderUnmapFirst == <<"shm_cleanup", "ws_stop", "tcp_stop", "sd_return">>

\* AeroflyBridge::Shutdown: its calls, in program order
ShutdownOrder == <<"ws_stop", "tcp_stop", "shm_cleanup", "sd_return">>

\* delete g_bridge: the member destructors, in reverse order of declaration
\* (~WebSocketServerInterface and ~TCPServerInterface call Stop,
\* ~SharedMemoryInterface calls Cleanup)
DeleteOrder == <<"ws_stop", "tcp_stop", "shm_cleanup", "dt_free">>

\* Where control goes when call st of the phase has returned
NextStage(ph, st) ==
    LET o == IF ph = "shutdown" THEN ShutdownOrder ELSE DeleteOrder
        i == CHOOSE k \in 1..Len(o) : o[k] = st
    IN o[i + 1]

\* Aerofly_FS_4_External_DLL_Shutdown: if (g_bridge) { g_bridge->Shutdown(); delete g_bridge; ... };
\* Shutdown returns at once if (!initialized)
DllShutdown ==
    /\ pc = "idle"
    /\ phase = "none"
    /\ lifeLeft.shuts > 0
    /\ lifeLeft' = [lifeLeft EXCEPT !.shuts = @ - 1]
    /\ IF g_bridge = "null" THEN UNCHANGED <<pc, phase>>
       ELSE IF initialized THEN phase' = "shutdown" /\ pc' = ShutdownOrder[1]
       ELSE phase' = "delete" /\ pc' = DeleteOrder[1]
    /\ UNCHANGED <<snapVars, hostRest, queueVars, serverVars, readerVars, inputVars, outVars, historyVars,
                   g_bridge, initialized, pData, tcp_server, ws_server, wsa_refs, init, leaked, lifeLog,
                   netVars>>

\* WebSocketServerInterface::Stop up to the join (Shutdown calls it only
\* if (ws_enabled)): if (!running) return; running = false; the server socket is closed
WsStop ==
    /\ pc = "ws_stop"
    /\ IF (phase = "shutdown" /\ ~ws_enabled) \/ ~ws_server.running
       THEN pc' = NextStage(phase, "ws_stop") /\ UNCHANGED ws_server
       ELSE /\ ws_server' = [ws_server EXCEPT !.running = FALSE, !.server_socket = "invalid"]
            /\ pc' = "ws_join"
    /\ UNCHANGED <<snapVars, hostRest, queueVars, serverVars, readerVars, inputVars, outVars, historyVars,
                   g_bridge, initialized, pData, tcp_server, wsa_refs, phase, lifeLeft, init, leaked,
                   lifeLog, netVars>>

\* WebSocketServerInterface::Stop from the join on: server_thread.join(), then
\* the client sockets are closed and the clients and pending commands cleared
WsJoin ==
    /\ pc = "ws_join"
    /\ ws_server.server_thread = "exited"
    /\ command_mutex["ws"] = "free"
    /\ ws_server' = [ws_server EXCEPT !.server_thread = "none"]
    /\ lifeLog' = Append(lifeLog, "join ws")
    /\ client_sockets' = [client_sockets EXCEPT !["ws"] = {}]
    /\ closed' = [closed EXCEPT !["ws"] = @ \cup client_sockets["ws"]]
    /\ recv_buffers' = <<>>
    /\ command_queue' = [command_queue EXCEPT !["ws"] = <<>>]
    /\ pc' = NextStage(phase, "ws_stop")
    /\ UNCHANGED <<snapVars, hostRest, ws_enabled, command_mutex, serverVars, readerVars, inputVars,
                   outVars, historyVars, g_bridge, initialized, pData, tcp_server, wsa_refs, phase,
                   lifeLeft, init, leaked, acc_pc, conns, wsVars, castVars>>

\* TCPServerInterface::Stop: running = false; the server socket is closed
TcpStop ==
    /\ pc = "tcp_stop"
    /\ tcp_server' = [tcp_server EXCEPT !.running = FALSE, !.server_socket = "invalid"]
    /\ pc' = "tcp_clients"
    /\ UNCHANGED <<snapVars, hostRest, queueVars, serverVars, readerVars, inputVars, outVars, historyVars,
                   g_bridge, initialized, pData, ws_server, wsa_refs, phase, lifeLeft, init, leaked,
                   lifeLog, netVars>>

\* TCPServerInterface::Stop: under clients_mutex every client socket is closed
\* and client_sockets cleared
TcpClients ==
    /\ pc = "tcp_clients"
    /\ client_sockets' = [client_sockets EXCEPT !["tcp"] = {}]
    /\ closed' = [closed EXCEPT !["tcp"] = @ \cup client_sockets["tcp"]]
    /\ pc' = "tcp_join_server"
    /\ UNCHANGED <<snapVars, hostRest, queueVars, serverVars, readerVars, inputVars, outVars, historyVars,
                   lifeVars, acc_pc, conns, recv_buffers, wsVars, castVars>>

\* TCPServerInterface::Stop: if (server_thread.joinable()) server_thread.join()
TcpJoinServer ==
    /\ pc = "tcp_join_server"
    /\ tcp_server.server_thread # "running"
    /\ IF tcp_server.server_thread = "exited"
       THEN /\ tcp_server' = [tcp_server EXCEPT !.server_thread = "none"]
            /\ lifeLog' = Append(lifeLog, "join tcp server")
       ELSE UNCHANGED <<tcp_server, lifeLog>>
    /\ pc' = "tcp_join_command"
    /\ UNCHANGED <<snapVars, hostRest, queueVars, serverVars, readerVars, inputVars, outVars, historyVars,
                   g_bridge, initialized, pData, ws_server, wsa_refs, phase, lifeLeft, init, leaked, netVars>>

\* TCPServerInterface::Stop: if (command_thread.joinable()) command_thread.join();
\* if (winsock_initialized) { WSACleanup(); winsock_initialized = false; }
TcpJoinCommand ==
    /\ pc = "tcp_join_command"
    /\ tcp_server.command_thread # "running"
    /\ tcp_server' = [tcp_server EXCEPT !.command_thread = "none", !.winsock_initialized = FALSE]
    /\ lifeLog' = lifeLog
            \o (IF tcp_server.command_thread = "exited" THEN <<"join tcp command">> ELSE <<>>)
            \o (IF tcp_server.winsock_initialized THEN <<"WSACleanup">> ELSE <<>>)
    /\ wsa_refs' = IF tcp_server.winsock_initialized THEN wsa_refs - 1 ELSE wsa_refs
    /\ pc' = NextStage(phase, "tcp_stop")
    /\ UNCHANGED <<snapVars, hostRest, queueVars, serverVars, readerVars, inputVars, outVars, historyVars,
                   g_bridge, initialized, pData, ws_server, phase, lifeLeft, init, leaked, netVars>>

\* SharedMemoryInterface::Cleanup: if (pData) { UnmapViewOfFile(pData); pData = nullptr; }
ShmCleanup ==
    /\ pc = "shm_cleanup"
    /\ IF pData = "mapped"
       THEN pData' = "null" /\ lifeLog' = Append(lifeLog, "unmap")
       ELSE UNCHANGED <<pData, lifeLog>>
    /\ pc' = NextStage(phase, "shm_cleanup")
    /\ UNCHANGED <<snapVars, hostRest, queueVars, serverVars, readerVars, inputVars, outVars, historyVars,
                   g_bridge, initialized, tcp_server, ws_server, wsa_refs, phase, lifeLeft, init, leaked,
                   netVars>>

\* AeroflyBridge::Shutdown: initialized = false; it returns and delete g_bridge begins
SdReturn ==
    /\ pc = "sd_return"
    /\ initialized' = FALSE
    /\ phase' = "delete"
    /\ pc' = DeleteOrder[1]
    /\ UNCHANGED <<snapVars, hostRest, queueVars, serverVars, readerVars, inputVars, outVars, historyVars,
                   g_bridge, pData, tcp_server, ws_server, wsa_refs, lifeLeft, init, leaked, lifeLog,
                   netVars>>

\* Aerofly_FS_4_External_DLL_Shutdown: the object is freed; g_bridge = nullptr
DtFree ==
    /\ pc = "dt_free"
    /\ g_bridge' = "null"
    /\ ws_enabled' = FALSE
    /\ phase' = "none"
    /\ pc' = "idle"
    /\ UNCHANGED <<snapVars, hostRest, command_queue, command_mutex, serverVars, readerVars, inputVars,
                   outVars, historyVars, initialized, pData, tcp_server, ws_server, wsa_refs,
                   lifeLeft, init, leaked, lifeLog, netVars>>

\* A server thread finds while (running) false and returns
ThreadExit(t) ==
    /\ CASE t = "tcp server" ->
              /\ tcp_server.server_thread = "running" /\ ~tcp_server.running /\ acc_pc = "idle"
              /\ tcp_server' = [tcp_server EXCEPT !.server_thread = "exited"]
              /\ UNCHANGED ws_server
         [] t = "tcp command" ->
              /\ tcp_server.command_thread = "running" /\ ~tcp_server.running /\ srv_pc["tcp"] = "idle"
              /\ tcp_server' = [tcp_server EXCEPT !.command_thread = "exited"]
              /\ UNCHANGED ws_server
         [] t = "ws" ->
              /\ ws_server.server_thread = "running" /\ ~ws_server.running /\ srv_pc["ws"] = "idle"
              /\ ws_server' = [ws_server EXCEPT !.server_thread = "exited"]
              /\ UNCHANGED tcp_server
    /\ UNCHANGED <<snapVars, hostVars, queueVars, serverVars, readerVars, inputVars, outVars, historyVars,
                   g_bridge, initialized, pData, wsa_refs, phase, lifeLeft, init, leaked, lifeLog, netVars>>

\* TCP ServerLoop: accept() has returned a client and running was found true
TcpAccept ==
    /\ tcp_server.server_thread = "running"
    /\ tcp_server.running
    /\ acc_pc = "idle"
    /\ conns["tcp"] < env.maxConns
    /\ conns' = [conns EXCEPT !["tcp"] = @ + 1]
    /\ acc_pc' = "accepted"
    /\ UNCHANGED <<snapVars, hostVars, queueVars, serverVars, readerVars, inputVars, outVars, historyVars,
                   lifeVars, client_sockets, closed, recv_buffers, wsVars, castVars>>

\* TCP ServerLoop: the socket options are set, then under clients_mutex
\* client_sockets.push_back(client_socket)
TcpAcceptPush ==
    /\ acc_pc = "accepted"
    /\ client_sockets' = [client_sockets EXCEPT !["tcp"] = @ \cup {conns["tcp"]}]
    /\ acc_pc' = "idle"
    /\ UNCHANGED <<snapVars, hostVars, queueVars, serverVars, readerVars, inputVars, outVars, historyVars,
                   lifeVars, conns, closed, recv_buffers, wsVars, castVars>>

\* WebSocket ServerLoop: a client is accepted, the handshake succeeds and under
\* clients_mutex client_sockets.push_back(client)
WsAccept ==
    /\ ws_server.server_thread = "running"
    /\ srv_pc["ws"] = "idle"
    /\ conns["ws"] < env.maxConns
    /\ conns' = [conns EXCEPT !["ws"] = @ + 1]
    /\ client_sockets' = [client_sockets EXCEPT !["ws"] = @ \cup {conns["ws"] + 1}]
    /\ recv_buffers' = [c \in DOMAIN recv_buffers \cup {conns["ws"] + 1} |-> <<>>]
    /\ UNCHANGED <<snapVars, hostVars, queueVars, serverVars, readerVars, inputVars, outVars, historyVars,
                   lifeVars, acc_pc, closed, wsVars, castVars>>

\* ---------------------------------------------------------------- specifications
HostNext ==
    \/ HostBegin
    \/ UD_Invalidate
    \/ UD_Timestamp
    \/ UD_Counter
    \/ UD_Message
    \/ UD_Validate
    \/ \E ch \in Chan : GetPendingLock(ch)
    \/ \E ch \in Chan : GetPendingDrain(ch)
    \/ HostProcess
    \/ HostStep
    \/ HostFinish

ServerNext ==
    \/ \E ch \in Chan : ServerLock(ch)
    \/ \E ch \in Chan : ServerPush(ch)

ReaderNext ==
    \/ ReaderBegin
    \/ ReaderDoor
    \/ ReaderWindow
    \/ ReaderCheck

\* The snapshot under any simulator messages, with one client command
Init ==
    /\ InitFresh \/ InitLongRun
    /\ env = [msgs |-> HostMessages, cmds |-> {CmdLeftDoor}, maxMsgs |-> MaxMsgs, maxTicks |-> MaxTicks,
              caps |-> {MessageBytes * SnapCmds}, maxConns |-> 0,
              dts |-> {1}, broadcastMs |-> NotSet,
              sends |-> SendOutcomes]
    /\ cmdsLeft = SnapCmds
    /\ readsLeft = 0

Next == HostNext \/ ServerNext

Spec == Init /\ [][Next]_vars

\* The command path under any client commands
InitCmd ==
    /\ InitFresh
    /\ env = [msgs |-> {Message(IdUnknown, "Value", Fin(3))}, cmds |-> ClientCommands,
              maxMsgs |-> CmdMsgs, maxTicks |-> CmdTicks,
              caps |-> {MessageBytes * MaxCmds}, maxConns |-> 0,
              dts |-> {1}, broadcastMs |-> NotSet,
              sends |-> SendOutcomes]
    /\ cmdsLeft = MaxCmds
    /\ readsLeft = 0

NextCmd == HostNext \/ ServerNext

SpecCmd == InitCmd /\ [][NextCmd]_vars

\* An external reader beside the host tick and the command servers
InitReader ==
    /\ InitFresh
    /\ env = [msgs |-> {Message(IdLeftDoor, "Step", Fin(3))}, cmds |-> {CmdLeftDoor, CmdLeftWindow, CmdNoJson},
              maxMsgs |-> ReaderMsgs, maxTicks |-> ReaderTicks,
              caps |-> {MessageBytes * ReaderCmds}, maxConns |-> 0,
              dts |-> {1}, broadcastMs |-> NotSet,
              sends |-> SendOutcomes]
    /\ cmdsLeft = ReaderCmds
    /\ readsLeft = MaxReads

NextReader == HostNext \/ ServerNext \/ ReaderNext

SpecReader == InitReader /\ [][NextReader]_vars

\* The command path under commands that name a read-only variable
InitAccess ==
    /\ InitFresh
    /\ env = [msgs |-> {Message(IdUnknown, "Value", Fin(3))}, cmds |-> {CmdAltitude, CmdLeftDoor},
              maxMsgs |-> AccessMsgs, maxTicks |-> AccessTicks,
              caps |-> 0..MaxCapacity, maxConns |-> 0,
              dts |-> {1}, broadcastMs |-> NotSet,
              sends |-> SendOutcomes]
    /\ cmdsLeft = AccessCmds
    /\ readsLeft = 0

NextAccess == HostNext \/ ServerNext

SpecAccess == InitAccess /\ [][NextAccess]_vars

\* The module is loaded and Aerofly_FS_4_External_DLL_Init has not been called
InitUnloaded ==
    /\ InitCommon
    /\ ws_enabled = FALSE
    /\ data_valid = 0
    /\ update_counter = CounterZero
    /\ ctrAtCall = CounterZero
    /\ g_bridge = "null"
    /\ initialized = FALSE
    /\ pData = "null"
    /\ tcp_server = TcpStopped
    /\ ws_server = WsStopped
    /\ wsa_refs = 0
    /\ phase = "none"
    /\ init = [shmOk |-> FALSE, tcpOk |-> FALSE, wsOk |-> FALSE, ret |-> FALSE]
    /\ leaked = <<>>

LifeNext ==
    \/ DllInit
    \/ TickRejected
    \/ DllShutdown
    \/ WsStop
    \/ WsJoin
    \/ TcpStop
    \/ TcpClients
    \/ TcpJoinServer
    \/ TcpJoinCommand
    \/ ShmCleanup
    \/ SdReturn
    \/ DtFree
    \/ \E t \in {"tcp server", "tcp command", "ws"} : ThreadExit(t)
    \/ TcpAccept
    \/ TcpAcceptPush
    \/ WsAccept

\* The host loads the module, initializes it, ticks and shuts it down, while
\* clients connect and send commands
InitLife ==
    /\ InitUnloaded
    /\ env = [msgs |-> {Message(IdUnknown, "Value", Fin(3))}, cmds |-> {CmdLeftDoor},
              maxMsgs |-> LifeMsgs, maxTicks |-> LifeTicks,
              caps |-> {MessageBytes * LifeCmds}, maxConns |-> LifeConns,
              dts |-> {1}, broadcastMs |-> NotSet,
              sends |-> {"sent"}]
    /\ cmdsLeft = LifeCmds
    /\ readsLeft = 0
    /\ lifeLeft = [init |-> TRUE, shuts |-> MaxShuts]

NextLife == HostNext \/ BroadcastNext \/ ServerNext \/ LifeNext

SpecLife == InitLife /\ [][NextLife]_vars

\* A host that calls Init again without a Shutdown in between
InitInstances ==
    /\ InitUnloaded
    /\ env = [msgs |-> {Message(IdUnknown, "Value", Fin(3))}, cmds |-> {CmdLeftDoor},
              maxMsgs |-> 1, maxTicks |-> InstTicks,
              caps |-> {MessageBytes}, maxConns |-> InstConns,
              dts |-> {1}, broadcastMs |-> NotSet,
              sends |-> {"sent"}]
    /\ cmdsLeft = 1
    /\ readsLeft = 0
    /\ lifeLeft = [init |-> TRUE, shuts |-> InstShuts, again |-> InstInits]

NextInstances == HostNext \/ BroadcastNext \/ ServerNext \/ LifeNext \/ DllInitAgain

SpecInstances == InitInstances /\ [][NextInstances]_vars

\* The tick entry point in every state of the bridge's life, with exceptions
\* inside the tick and output buffers of any capacity
InitTick ==
    /\ InitUnloaded
    /\ env = [msgs |-> {Message(IdUnknown, "Value", Fin(3))}, cmds |-> {CmdLeftDoor},
              maxMsgs |-> LifeMsgs, maxTicks |-> TickTicks,
              caps |-> {0, MessageBytes * LifeCmds}, maxConns |-> LifeConns,
              dts |-> {1}, broadcastMs |-> NotSet,
              sends |-> {"sent"}]
    /\ cmdsLeft = LifeCmds
    /\ readsLeft = 0
    /\ lifeLeft = [init |-> TRUE, shuts |-> TickShuts]

NextTick == HostNext \/ BroadcastNext \/ ServerNext \/ LifeNext \/ HostThrow

SpecTick == InitTick /\ [][NextTick]_vars

\* The command step: commands that open and close the left door, a command
\* that moves its handle and a command for a variable without the step flag
InitStep ==
    /\ InitFresh
    /\ env = [msgs |-> {}, cmds |-> {CmdLeftDoor, CmdLeftDoorBack, CmdLeftDoorHandle, CmdThrottle},
              maxMsgs |-> 0, maxTicks |-> StepTicks, caps |-> {MessageBytes * StepCmds},
              maxConns |-> 0, dts |-> {1}, broadcastMs |-> NotSet, sends |-> {"sent"}]
    /\ cmdsLeft = StepCmds
    /\ readsLeft = 0

NextStep ==
    \/ HostBegin
    \/ UD_Invalidate
    \/ UD_Timestamp
    \/ UD_Counter
    \/ UD_Validate
    \/ \E ch \in Chan : GetPendingLock(ch)
    \/ \E ch \in Chan : GetPendingDrain(ch)
    \/ HostProcess
    \/ HostStep
    \/ HostFinish
    \/ \E ch \in Chan : ServerLock(ch)
    \/ \E ch \in Chan : ServerPush(ch)

SpecStep == InitStep /\ [][NextStep]_vars

\* The registry alone: callers look names and hashes up
InitRegistry ==
    /\ InitCommon
    /\ InitStarted
    /\ data_valid = 0
    /\ update_counter = CounterZero
    /\ ctrAtCall = CounterZero
    /\ env = [msgs |-> {}, cmds |-> {}, maxMsgs |-> 0, maxTicks |-> 0, caps |-> {0},
              maxConns |-> 0, dts |-> {1}, broadcastMs |-> NotSet, sends |-> {"sent"}]
    /\ cmdsLeft = 0
    /\ readsLeft = 0

NextRegistry ==
    \/ LookupName
    \/ LookupHash

SpecRegistry == InitRegistry /\ [][NextRegistry]_vars

\* The threads of the bridge, step by step: the ticks and one Shutdown of
\* the host against the server threads, in four scenarios: a WebSocket
\* client sends and leaves, WebSocket clients connect, data clients connect
\* and leave, command clients connect, send and leave
\* the clients of `port` are active: they connect (nconns each), send (nchunks
\* in all) and leave, as the scenario has it
ThreadBudget(port, nconns, nchunks, leave) ==
    [active |-> {port}, ticks |-> ThreadTicks, stops |-> 1, chunks |-> nchunks, leaves |-> leave,
     conns |-> [q \in Ports |-> IF q = port THEN nconns ELSE 0]]
ThreadBudgets ==
    {ThreadBudget("ws", 0, ThreadChunks, TRUE),
     ThreadBudget("ws", ThreadConns, 0, FALSE),
     ThreadBudget("tcp", ThreadConns, 0, TRUE),
     ThreadBudget("cmd", ThreadConns, ThreadChunks, TRUE)}

InitThreads ==
    /\ InitBridge
    /\ InitStarted
    /\ ws_enabled
    /\ data_valid = 0
    /\ update_counter = CounterZero
    /\ ctrAtCall = CounterZero
    /\ env = [msgs |-> {}, cmds |-> {}, maxMsgs |-> 0, maxTicks |-> 0, caps |-> {0},
              maxConns |-> 0, dts |-> {1}, broadcastMs |-> NotSet, sends |-> {"sent"}]
    /\ cmdsLeft = 0
    /\ readsLeft = 0
    /\ conns = [ch \in Chan |-> 1]
    /\ client_sockets = [ch \in Chan |-> {<<ch, 1>>}]
    /\ recv_buffers = [c \in {<<"ws", 1>>} |-> <<>>]
    /\ tpc = [t \in Threads |-> IF t = "host" THEN Idle
                                ELSE <<CHOOSE port \in Ports : Acceptor(port) = t, "top">>]
    /\ mutexes = [m \in Mutexes |-> "free"]
    /\ local = [t \in Threads |-> NoLocals]
    /\ sock = [s \in {Listener(port) : port \in Ports} \cup {<<"tcp", 1>>, <<"ws", 1>>} |->
                 NewSocket]
    /\ backlog = [port \in Ports |-> 0]
    /\ budget \in ThreadBudgets
    /\ running = [ch \in Chan |-> TRUE]
    /\ server_socket = [ch \in Chan |-> Listener(ch)]
    /\ syscalls = [t \in Threads |-> NoCalls]

SpecThreads == InitThreads /\ [][ThreadNext]_vars

\* The command port alone: clients connect, write their segments and close
\* while CommandLoop serves them
InitPort ==
    /\ InitCommon
    /\ InitRunning
    /\ data_valid = 0
    /\ update_counter = CounterZero
    /\ ctrAtCall = CounterZero
    /\ env = [msgs |-> {}, cmds |-> {}, maxMsgs |-> 0, maxTicks |-> 0, caps |-> {0},
              maxConns |-> 0, dts |-> {1}, broadcastMs |-> NotSet, sends |-> {"sent"}]
    /\ cmdsLeft = PortConns
    /\ readsLeft = 0
    /\ lifeLeft = [init |-> FALSE, shuts |-> 0]

NextPort ==
    \/ PortConnect
    \/ PortWrite
    \/ PortClose
    \/ CmdAccept
    \/ CmdRecv
    \/ CmdPushClose
    \/ CmdRecvEof
    \/ PortGone

SpecPort == InitPort /\ [][NextPort]_vars

\* The string fields alone: the simulator sends string messages
InitString == InitRegistry

NextString == NearestAirportIdentifier

SpecString == InitString /\ [][NextString]_vars

\* The inputs of the WebSocket server: any of the upgrade requests while the
\* simulator ticks; or frames of every kind, arriving whole or in pieces; or
\* clients that leave while the simulator ticks
WsInputsOf(maxTicks, requests, frames, cuts, resets) ==
    [msgs |-> {}, cmds |-> {}, maxMsgs |-> 0, maxTicks |-> maxTicks, caps |-> {0},
     maxConns |-> WsConns, dts |-> {20 * UsPerMs}, broadcastMs |-> NotSet,
     sends |-> {"sent", "fatal"}, requests |-> requests, frames |-> frames,
     cuts |-> cuts, resets |-> resets]
WsInputs ==
    {WsInputsOf(WsTicks, Requests, {}, {2}, FALSE)}
    \cup {WsInputsOf(0, {GoodRequest}, frames, {3}, FALSE) : frames \in FrameSets}
    \cup {WsInputsOf(WsTicks, {GoodRequest}, {DoorFrame, CloseFrame}, {}, TRUE)}

\* The WebSocket server: clients connect and send frames
InitWs ==
    /\ InitCommon
    /\ InitStarted
    /\ ws_enabled
    /\ data_valid = 0
    /\ update_counter = CounterZero
    /\ ctrAtCall = CounterZero
    /\ env \in WsInputs
    /\ cmdsLeft = WsFrames
    /\ readsLeft = 0

NextWs ==
    \/ WsNext
    \/ HostBegin
    \/ UD_Invalidate
    \/ UD_Timestamp
    \/ UD_Counter
    \/ UD_Validate
    \/ BroadcastNext
    \/ \E ch \in Chan : GetPendingLock(ch)
    \/ \E ch \in Chan : GetPendingDrain(ch)
    \/ HostProcess
    \/ HostStep
    \/ HostFinish

SpecWs == InitWs /\ [][NextWs]_vars

\* Shutdown of a running bridge whose command port has clients that connect
\* and then send a command, close, or do neither
InitStall ==
    /\ InitCommon
    /\ InitRunning
    /\ data_valid = 0
    /\ update_counter = CounterZero
    /\ ctrAtCall = CounterZero
    /\ env = [msgs |-> {}, cmds |-> {CmdLeftDoor}, maxMsgs |-> 0, maxTicks |-> 0, caps |-> {0},
              maxConns |-> StallConns, dts |-> {1}, broadcastMs |-> NotSet, sends |-> {"sent"}]
    /\ cmdsLeft = StallCmds
    /\ readsLeft = 0
    /\ lifeLeft = [init |-> FALSE, shuts |-> 1]

\* What the client of a server does: it is under no obligation to do it
ClientNext ==
    \/ CmdConnect
    \/ CmdRecvData
    \/ CmdRecvClosed
    \/ TcpAccept
    \/ WsAccept

NextStall ==
    \/ ClientNext
    \/ DllShutdown
    \/ WsStop
    \/ WsJoin
    \/ TcpStop
    \/ TcpClients
    \/ TcpJoinServer
    \/ TcpJoinCommand
    \/ ShmCleanup
    \/ SdReturn
    \/ DtFree
    \/ \E t \in {"tcp server", "tcp command", "ws"} : ThreadExit(t)
    \/ TcpAcceptPush
    \/ ServerPush("tcp")

\* Every thread that can take a step of the program eventually takes it
StallFairness ==
    /\ WF_vars(WsStop) /\ WF_vars(WsJoin)
    /\ WF_vars(TcpStop) /\ WF_vars(TcpClients)
    /\ WF_vars(TcpJoinServer) /\ WF_vars(TcpJoinCommand)
    /\ WF_vars(ShmCleanup) /\ WF_vars(SdReturn) /\ WF_vars(DtFree)
    /\ \A t \in {"tcp server", "tcp command", "ws"} : WF_vars(ThreadExit(t))
    /\ WF_vars(TcpAcceptPush)
    /\ WF_vars(ServerPush("tcp"))

SpecStall == InitStall /\ [][NextStall]_vars /\ StallFairness

\* The telemetry broadcast: clients connect to both servers while the host
\* ticks at irregular intervals; no client sends a command
TickGaps == {5 * UsPerMs, 20 * UsPerMs, 40 * UsPerMs}

InitCast ==
    /\ InitFresh
    /\ \E b \in {NotSet, <<"0">>} :
        env = [msgs |-> {}, cmds |-> {}, maxMsgs |-> 0, maxTicks |-> CastTicks, caps |-> {0},
               maxConns |-> CastConns, dts |-> TickGaps, broadcastMs |-> b,
               sends |-> SendOutcomes]
    /\ cmdsLeft = 0
    /\ readsLeft = 0

NextCast ==
    \/ HostBegin
    \/ UD_Invalidate
    \/ UD_Timestamp
    \/ UD_Counter
    \/ UD_Validate
    \/ BroadcastNext
    \/ \E ch \in Chan : GetPendingLock(ch)
    \/ \E ch \in Chan : GetPendingDrain(ch)
    \/ HostProcess
    \/ HostFinish
    \/ TcpAccept
    \/ TcpAcceptPush
    \/ WsAccept

SpecCast == InitCast /\ [][NextCast]_vars

\* The send loops: SlowConns clients are connected to each server and any of
\* them may be slow or gone when a frame is sent
InitSlow ==
    /\ InitBridge
    /\ InitNoThreads
    /\ InitStarted
    /\ data_valid = 0
    /\ update_counter = CounterZero
    /\ ctrAtCall = CounterZero
    /\ conns = [ch \in Chan |-> IF ch = "tcp" \/ ws_enabled THEN SlowConns ELSE 0]
    /\ client_sockets = [ch \in Chan |-> 1..conns[ch]]
    /\ recv_buffers = [c \in client_sockets["ws"] |-> <<>>]
    /\ env = [msgs |-> {}, cmds |-> {}, maxMsgs |-> 0, maxTicks |-> SlowTicks, caps |-> {0},
              maxConns |-> SlowConns, dts |-> {20 * UsPerMs}, broadcastMs |-> NotSet,
              sends |-> SendOutcomes]
    /\ cmdsLeft = 0
    /\ readsLeft = 0

NextSlow ==
    \/ HostBegin
    \/ UD_Invalidate
    \/ UD_Timestamp
    \/ UD_Counter
    \/ UD_Validate
    \/ BroadcastNext
    \/ \E ch \in Chan : GetPendingLock(ch)
    \/ \E ch \in Chan : GetPendingDrain(ch)
    \/ HostProcess
    \/ HostFinish

SpecSlow == InitSlow /\ [][NextSlow]_vars

\* The bytes on the wire: as SpecSlow, and a send may take part of a frame
InitWire ==
    /\ InitBridge
    /\ InitNoThreads
    /\ InitStarted
    /\ data_valid = 0
    /\ update_counter = CounterZero
    /\ ctrAtCall = CounterZero
    /\ conns = [ch \in Chan |-> IF ch = "tcp" \/ ws_enabled THEN WireConns ELSE 0]
    /\ client_sockets = [ch \in Chan |-> 1..conns[ch]]
    /\ recv_buffers = [c \in client_sockets["ws"] |-> <<>>]
    /\ env = [msgs |-> {}, cmds |-> {}, maxMsgs |-> 0, maxTicks |-> WireTicks, caps |-> {0},
              maxConns |-> WireConns, dts |-> {20 * UsPerMs}, broadcastMs |-> NotSet,
              sends |-> SendOutcomes \cup PartialOutcomes]
    /\ cmdsLeft = 0
    /\ readsLeft = 0

SpecWire == InitWire /\ [][NextSlow]_vars

\* The receive buffer: one client sends frames of every kind, and recv
\* returns them in pieces of any size up to ChunkBytes, or all that is there
InitChunks ==
    /\ InitCommon
    /\ InitStarted
    /\ ws_enabled
    /\ data_valid = 0
    /\ update_counter = CounterZero
    /\ ctrAtCall = CounterZero
    /\ \E frames \in FrameSets :
          env = [WsInputsOf(0, {GoodRequest}, frames, 1..ChunkBytes, FALSE) EXCEPT !.maxConns = 1]
    /\ cmdsLeft = ChunkFrames
    /\ readsLeft = 0

SpecChunks == InitChunks /\ [][WsNext]_vars

\* ---------------------------------------------------------------- simplified reader
\* The read-only build: SharedMemoryReader::UpdateData, its statements in
\* program order
SharedMemoryReaderOrderHeaderFirst ==
    <<"sr_invalidate", "sr_timestamp", "sr_counter", "sr_messages", "sr_validate">>

SharedMemoryReaderOrder ==
    <<"sr_invalidate", "sr_messages", "sr_timestamp", "sr_counter", "sr_validate">>

\* Ids with an entry in message_handlers of the read-only build; it has none
\* for the doors
SimplifiedHandlerIds == {IdAltitude}

\* Where control goes after statement st (UpdateData returns after the last);
\* the message loop is passed over when there is nothing left to iterate
SimplifiedAfter(st, left) ==
    LET i == CHOOSE k \in 1..Len(SharedMemoryReaderOrder) : SharedMemoryReaderOrder[k] = st
        next == IF i < Len(SharedMemoryReaderOrder) THEN SharedMemoryReaderOrder[i + 1] ELSE "idle"
    IN IF next = "sr_messages" /\ left = 0
       THEN (IF i + 1 < Len(SharedMemoryReaderOrder) THEN SharedMemoryReaderOrder[i + 2]
             ELSE "idle")
       ELSE next

\* One write of UpdateData: what was written, for which message, the value
\* of data_valid when it was written, and whether a data field changed
Write(what, id, changed) == [what |-> what, id |-> id, valid |-> data_valid, changed |-> changed]

simplifiedRest == <<all_variables, atUpdateEnd, atTickEnd, queueVars, serverVars, readerVars,
                    envVars, outVars, pushed, atLock, handed, hostOut, commands, command_messages,
                    stepIdx>>

\* Aerofly_FS_4_External_DLL_Update parses the byte stream and AeroflyReader::Update
\* calls UpdateData with the messages
SR_Begin ==
    /\ pc = "idle"
    /\ ticks < env.maxTicks
    /\ ticks' = ticks + 1
    /\ \E d \in env.dts : clock' = clock + d
    /\ \E n \in 0..env.maxMsgs : num_received' = n
    /\ msgIdx' = 0
    /\ writeLog' = <<>>
    /\ ctrAtCall' = update_counter
    /\ pc' = "sr_invalidate"
    /\ UNCHANGED <<snapVars, atUpdateEnd, atTickEnd, queueVars, serverVars, readerVars, envVars,
                   outVars, pushed, atLock, handed, hostOut, commands, command_messages, stepIdx>>

\* pData->data_valid = 0
SR_Invalidate ==
    /\ pc = "sr_invalidate"
    /\ data_valid' = 0
    /\ writeLog' = Append(writeLog, Write("data_valid=0", "", FALSE))
    /\ pc' = SimplifiedAfter("sr_invalidate", num_received - msgIdx)
    /\ UNCHANGED <<update_counter, timestamp_us, fields, num_received, msgIdx, clock, ticks,
                   ctrAtCall, simplifiedRest>>

\* One iteration of the loop: message_handlers.find(msg.GetID()) and, if
\* there is a handler, pData->field = msg.GetDouble()
SR_Message ==
    /\ pc = "sr_messages"
    /\ msgIdx < num_received
    /\ \E m \in env.msgs :
        /\ fields' = IF m.id \in SimplifiedHandlerIds
                      THEN [fields EXCEPT ![TargetOf(m.id)] = m.val] ELSE fields
        /\ writeLog' = Append(writeLog, Write("message", m.id, fields' # fields))
    /\ msgIdx' = msgIdx + 1
    /\ pc' = IF msgIdx + 1 = num_received THEN SimplifiedAfter("sr_messages", 0) ELSE pc
    /\ UNCHANGED <<data_valid, update_counter, timestamp_us, num_received, clock, ticks,
                   ctrAtCall, simplifiedRest>>

\* pData->timestamp_us = get_time_us()
SR_Timestamp ==
    /\ pc = "sr_timestamp"
    /\ timestamp_us' = GetTimeUs(clock)
    /\ writeLog' = Append(writeLog, Write("timestamp_us", "", FALSE))
    /\ pc' = SimplifiedAfter("sr_timestamp", num_received - msgIdx)
    /\ UNCHANGED <<data_valid, update_counter, fields, num_received, msgIdx, clock, ticks,
                   ctrAtCall, simplifiedRest>>

\* pData->update_counter++
SR_Counter ==
    /\ pc = "sr_counter"
    /\ update_counter' = NextCounter(update_counter)
    /\ writeLog' = Append(writeLog, Write("update_counter", "", FALSE))
    /\ pc' = SimplifiedAfter("sr_counter", num_received - msgIdx)
    /\ UNCHANGED <<data_valid, timestamp_us, fields, num_received, msgIdx, clock, ticks,
                   ctrAtCall, simplifiedRest>>

\* pData->data_valid = 1
SR_Validate ==
    /\ pc = "sr_validate"
    /\ data_valid' = 1
    /\ writeLog' = Append(writeLog, Write("data_valid=1", "", FALSE))
    /\ pc' = SimplifiedAfter("sr_validate", num_received - msgIdx)
    /\ UNCHANGED <<update_counter, timestamp_us, fields, num_received, msgIdx, clock, ticks,
                   ctrAtCall, simplifiedRest>>

\* The read-only build under simulator messages with and without a handler
InitSimplified ==
    /\ InitFresh \/ InitLongRun
    /\ env = [msgs |-> {Message(IdAltitude, "Value", Fin(25)), Message(IdAltitude, "Value", Fin(3)),
                        Message(IdLeftDoor, "Step", Fin(3)), Message(IdUnknown, "Value", Fin(3))},
              cmds |-> {}, maxMsgs |-> SimpleMsgs, maxTicks |-> SimpleTicks, caps |-> {0},
              maxConns |-> 0, dts |-> {1, 20 * UsPerMs}, broadcastMs |-> NotSet, sends |-> {"sent"}]
    /\ cmdsLeft = 0
    /\ readsLeft = 0

NextSimplified ==
    \/ SR_Begin
    \/ SR_Invalidate
    \/ SR_Message
    \/ SR_Timestamp
    \/ SR_Counter
    \/ SR_Validate

SpecSimplified == InitSimplified /\ [][NextSimplified]_vars

\* The telemetry documents: one client is connected to each server while the
\* simulator sends messages, a client sends a door command and a handler
\* may throw
InitDoc ==
    /\ InitBridge
    /\ InitNoThreads
    /\ InitStarted
    /\ data_valid = 0
    /\ update_counter = CounterZero
    /\ ctrAtCall = CounterZero
    /\ conns = [ch \in Chan |-> IF ch = "tcp" \/ ws_enabled THEN 1 ELSE 0]
    /\ client_sockets = [ch \in Chan |-> 1..conns[ch]]
    /\ recv_buffers = [c \in client_sockets["ws"] |-> <<>>]
    /\ env = [msgs |-> {Message(IdAltitude, "Value", Fin(25)), Message(IdLeftDoor, "Step", Fin(3)),
                        [Message(IdLeftDoor, "Step", Fin(6)) EXCEPT !.throws = TRUE]},
              cmds |-> {CmdLeftDoor}, maxMsgs |-> DocMsgs, maxTicks |-> DocTicks,
              caps |-> {MessageBytes * DocCmds}, maxConns |-> 1,
              dts |-> {5 * UsPerMs, 20 * UsPerMs}, broadcastMs |-> NotSet, sends |-> {"sent"}]
    /\ cmdsLeft = DocCmds
    /\ readsLeft = 0

NextDoc == HostNext \/ BroadcastNext \/ ServerNext \/ HostThrow

SpecDoc == InitDoc /\ [][NextDoc]_vars

\* ---------------------------------------------------------------- properties
Range(s) == {s[i] : i \in 1..Len(s)}

\* UpdateData has returned in the current tick
UpdateDataReturned == ticks > 0 /\ pc \notin Range(UpdateDataOrder)

\* C1: every write to a snapshot variable slot or typed field happens while
\* data_valid = 0 (and leaves it 0): no step changes a snapshot value while
\* data_valid = 1.
C1_WritesOnlyWhileInvalid ==
    [][(fields' # fields \/ all_variables' # all_variables)
        => (data_valid = 0 /\ data_valid' = 0)]_vars

\* C2: a read the external reader accepts (data_valid 1 before and after, equal
\* update_counter) equals the slots as they stood at the end of one single
\* update. Judged once the tick that wrote the accepted counter has returned:
\* the read then equals the slots as that tick's UpdateData left them or as its
\* command step left them.
C2_AcceptedReadIsOneUpdate ==
    (rd_pc = "accepted" /\ pc = "idle" /\ rd.ctr = update_counter) =>
        \E s \in Committed :
            s["C172_LEFT_DOOR"] = rd.door /\ s["C172_LEFT_WINDOW"] = rd.window

Messages(n) == [i \in 1..n |-> "message"]
LogAsCoded(n) ==
    <<"data_valid=0", "timestamp_us", "update_counter">> \o Messages(n) \o <<"data_valid=1">>
LogAsClaimed(n) ==
    <<"data_valid=0">> \o Messages(n) \o <<"timestamp_us", "update_counter", "data_valid=1">>
IsPrefix(s, t) == Len(s) <= Len(t) /\ \A i \in 1..Len(s) : s[i] = t[i]

Plus1Mod32(c) ==
    IF c = CounterMax THEN CounterZero
    ELSE IF c[2] = HalfWord - 1 THEN <<c[1] + 1, 0>>
    ELSE <<c[1], c[2] + 1>>

\* C4: each UpdateData call increases update_counter by exactly 1 modulo 2^32,
\* whatever its messages are, and nothing else changes it: the counter equals
\* its value at the call until the call's single increment, and that value plus
\* one (modulo 2^32) from then on, through the rest of the tick.
C4_CounterPlusOne ==
    /\ Cardinality({i \in 1..Len(writeLog) : writeLog[i] = "update_counter"}) <= 1
    /\ update_counter = IF "update_counter" \in Range(writeLog)
                        THEN Plus1Mod32(ctrAtCall) ELSE ctrAtCall

\* C4, witness: a tick has wrapped the counter from 2^32 - 1 to 0
C4_WrappedAround ==
    pc = "idle" /\ data_valid = 1 /\ ctrAtCall = CounterMax /\ update_counter = CounterZero

\* C5: every step variable's stored scalar is in [0, 1], whatever step messages
\* have come in.
C5_StepVarsInUnitRange ==
    \A v \in StepVars :
        /\ IsFinite(all_variables[v])
        /\ all_variables[v][2] >= 0
        /\ all_variables[v][2] <= One

\* C6: when UpdateData has returned, no slot of the scalar array is NaN or
\* infinite.
C6_SlotsFiniteAfterUpdate ==
    pc = "tcp_lock" => \A v \in VarIndex : IsFinite(all_variables[v])

\* C7: messages translated from commands of one channel appear in the host
\* output in the order the commands were enqueued, in one tick or across ticks.
C7_FifoPerChannel ==
    \A i, j \in 1..Len(hostOut) :
        (i < j /\ hostOut[i][1] = hostOut[j][1]) => hostOut[i][2] < hostOut[j][2]

\* C7, witness: the first and third TCP commands were translated, in that
\* order, and the second, enqueued between them, was dropped
C7_OrderKeptAroundDrop ==
    /\ \E i, j \in 1..Len(hostOut) :
        i < j /\ hostOut[i] = <<"tcp", 1>> /\ hostOut[j] = <<"tcp", 3>>
    /\ <<"tcp", 2>> \in Range(handed)
    /\ <<"tcp", 2>> \notin Range(hostOut)

\* C8: in a tick's output no message translated from a WebSocket command comes
\* before a message translated from a TCP command.
C8_TcpBeforeWs ==
    \A i, j \in 1..Len(command_messages) :
        i < j => ~(command_messages[i].src[1] = "ws" /\ command_messages[j].src[1] = "tcp")

\* C8, witness: a tick is about to return messages of both channels
C8_BothChannelsInOneTick ==
    /\ pc = "finish"
    /\ \E i, j \in 1..Len(command_messages) :
        i < j /\ command_messages[i].src[1] = "tcp" /\ command_messages[j].src[1] = "ws"

OfChan(s, ch) == SelectSeq(s, LAMBDA t : t[1] = ch)
Numbered(ch, n) == [i \in 1..n |-> <<ch, i>>]
\* Commands a drain has returned that are not yet handed to ProcessCommands
InFlight == IF pc \in {"ws_lock", "ws_drain", "process"} THEN Tags(commands) ELSE <<>>

\* C9: every command enqueued is returned by exactly one GetPendingCommands
\* call, the first whose critical section follows the enqueue, and is handed
\* to the command processor on that tick: the commands handed over so far
\* followed by those still queued are the commands enqueued, each once and
\* in order, and once a tick has processed its commands everything enqueued
\* before its drain took the lock has been handed over.
C9_EveryCommandHandedOnce ==
    \A ch \in Chan :
        /\ OfChan(handed \o InFlight, ch) \o Tags(command_queue[ch]) = Numbered(ch, pushed[ch])
        /\ pc \notin {"tcp_drain", "ws_lock", "ws_drain", "process"}
            => OfChan(handed, ch) = Numbered(ch, atLock[ch])

\* C9, witness: in the second tick two TCP commands have been handed over and
\* a third, enqueued after the drain, waits in the queue
C9_EnqueuedAfterDrainWaits ==
    /\ pc = "finish"
    /\ ticks = 2
    /\ pushed["tcp"] = 3
    /\ OfChan(handed, "tcp") = Numbered("tcp", 2)
    /\ Len(command_queue["tcp"]) = 1

Unregistered(c) == c.kind = "ok" /\ c.var \notin RegistryNames

\* C10: a command naming a variable that is not in the registry produces no
\* message in the tick's output, and a command step that had only such commands
\* leaves the snapshot as UpdateData left it.
C10_UnknownVariableDropped ==
    pc = "finish" =>
        /\ \A i \in 1..Len(commands) :
            Unregistered(commands[i]) =>
                \A j \in 1..Len(command_messages) : command_messages[j].src # commands[i].src
        /\ (\A i \in 1..Len(commands) : Unregistered(commands[i]))
            => (command_messages = <<>> /\ <<fields, all_variables>> = atUpdateEnd)

\* C10, witness: a tick whose drained commands all name an unknown variable is
\* about to return
C10_OnlyUnknownCommands ==
    /\ pc = "finish"
    /\ commands # <<>>
    /\ \A i \in 1..Len(commands) : Unregistered(commands[i])

NotWritable(c) ==
    c.kind = "ok" /\ c.var \in RegistryNames /\ DeclaredAccess(c.var) \in {"Read", "None"}

\* C11: a command naming a registered variable whose declared access is read or
\* none produces no simulator message in the tick's output.
C11_ReadOnlyCommandDropped ==
    pc = "finish" =>
        \A i \in 1..Len(commands) :
            NotWritable(commands[i]) =>
                \A j \in 1..Len(command_messages) : command_messages[j].src # commands[i].src

\* C12: the bytes written to the host's output buffer in one tick never exceed
\* out_capacity, whatever the number of pending commands.
C12_OutputWithinCapacity ==
    (pc = "idle" /\ sent_size # Unset) => sent_size <= out_capacity

\* C13: the tick entry point never propagates an error to the host: every tick
\* returns with a valid output size (within the buffer) and message count, and
\* both are 0 when the bridge pointer is null or the bridge is not initialized
\* (before init, after a failed init, after shutdown) and when an exception
\* occurred during the tick.
C13_TickReturnsValidOutput ==
    [][/\ pc' # "crashed"
       /\ (ticks' = ticks + 1 /\ (g_bridge = "null" \/ ~initialized))
            => (pc' = "idle" /\ sent_size' = 0 /\ sent_num' = 0)
       /\ (pc \in InTick /\ pc' = "idle") => (sent_size' = 0 /\ sent_num' = 0)
       /\ (pc = "finish" /\ pc' = "idle")
            => (sent_size' \in 0..out_capacity /\ sent_num' = Len(command_messages))]_vars

NoServerThread ==
    /\ tcp_server.server_thread = "none"
    /\ tcp_server.command_thread = "none"
    /\ ws_server.server_thread = "none"

\* C14: AeroflyBridge::Initialize returns false exactly when the shared memory
\* cannot be created or mapped, and then starts no server thread and leaves the
\* bridge uninitialized; when the TCP server or the WebSocket server fails to
\* start it still returns true and the bridge is initialized, with the servers
\* that did start running.
C14_InitializeFailsOnlyOnSharedMemory ==
    [][(g_bridge = "null" /\ g_bridge' = "obj") =>
        /\ init'.ret = init'.shmOk
        /\ ~init'.ret => (~initialized' /\ NoServerThread' /\ pData' = "null")
        /\ init'.ret =>
            /\ initialized'
            /\ tcp_server'.running = init'.tcpOk
            /\ (tcp_server'.command_thread = "running") = init'.tcpOk
            /\ ws_server'.running = init'.wsOk
            /\ (ws_server'.server_thread = "running") = init'.wsOk]_vars

\* C14, witness: the TCP server did not start, Initialize returned true, and a
\* tick has returned the message of a command that came in on the WebSocket
C14_RunsOnWebSocketAlone ==
    /\ init.ret /\ ~init.tcpOk /\ init.wsOk
    /\ initialized
    /\ pc = "idle"
    /\ hostOut = <<<<"ws", 1>>>>

\* The order in which a shutdown joins, releases and unmaps
ShutdownLogOrder == <<"join ws", "join tcp server", "join tcp command", "WSACleanup", "unmap">>
Rank(e) == CHOOSE k \in 1..Len(ShutdownLogOrder) : ShutdownLogOrder[k] = e

C16_SecondShutdownChangesNothing ==
    [][(phase = "delete" \/ (g_bridge = "null" /\ lifeLeft'.shuts < lifeLeft.shuts)) =>
        UNCHANGED <<tcp_server, ws_server, client_sockets, command_queue, pData, initialized,
                    wsa_refs, lifeLog>>]_vars

\* Values AEROFLY_BRIDGE_BROADCAST_MS may have
BroadcastValues ==
    {NotSet, <<"0">>, <<"4">>, <<"5">>, <<"-", "3">>, <<"a", "b", "c">>, <<"3", "0">>}

IsNumeric(buf) ==
    LET digits == IF buf # <<>> /\ Head(buf) \in {"-", "+"} THEN Tail(buf) ELSE buf
    IN digits # <<>> /\ \A i \in 1..Len(digits) : IsDigit(digits[i])

\* The interval as documented: the integer value, 20 when unset, 5 when below 5
\* or not a number
DocumentedIntervalMs(buf) ==
    IF buf = NotSet THEN 20
    ELSE IF IsNumeric(buf) /\ Atoi(buf) >= 5 THEN Atoi(buf) ELSE 5

\* C17: for each server, two consecutive broadcasts are at least the configured
\* interval apart (the integer value of AEROFLY_BRIDGE_BROADCAST_MS, 20 ms when
\* unset, 5 ms when below 5 or not a number), and a BroadcastData call inside
\* the interval sends nothing and leaves the last-broadcast time alone.
C17_BroadcastsAnIntervalApart ==
    [][/\ \A b \in BroadcastValues : GetIntervalMs(b) = DocumentedIntervalMs(b)
       /\ \A ch \in Chan :
            LET interval_us == DocumentedIntervalMs(env.broadcastMs) * UsPerMs
            IN /\ (lastAt[ch] # Unset /\ lastAt'[ch] # lastAt[ch])
                    => lastAt'[ch] - lastAt[ch] >= interval_us
               /\ (pc = BcastPc(ch) /\ pc' # pc /\ lastAt[ch] # Unset
                     /\ clock - lastAt[ch] < interval_us)
                    => /\ cast'[ch].did = "nothing"
                       /\ last_broadcast_us'[ch] = last_broadcast_us[ch]]_vars

\* C18 (as the code has it): on a tick where both the TCP server and the
\* WebSocket server broadcast, their JSON payloads are byte-identical.
C18_SamePayloadWhenBothBroadcast ==
    (cast["tcp"].did = "broadcast" /\ cast["ws"].did = "broadcast")
        => cast["tcp"].payload = cast["ws"].payload

\* C18, witness: the second tick has broadcast on both servers
C18_BothBroadcastInOneTick ==
    /\ ticks = 2
    /\ cast["tcp"].did = "broadcast" /\ cast["tcp"].snapshot # {}
    /\ cast["ws"].did = "broadcast" /\ cast["ws"].snapshot # {}

\* C18 (as claimed): whenever both servers have at least one client (Update
\* has called BroadcastData on both), the tick broadcasts on both with
\* byte-identical payload or on neither.
C18_BothOrNeither ==
    (cast["tcp"].did # "none" /\ cast["ws"].did # "none")
        => /\ cast["tcp"].did = cast["ws"].did
           /\ cast["tcp"].payload = cast["ws"].payload

\* C19: if the send to one client would block during a broadcast, every other
\* client in the set is still sent the complete frame in that broadcast, and
\* stays in the set for the broadcasts that follow unless its own send fails.
C19_OthersServedWhenOneBlocks ==
    \A ch \in Chan :
        (cast[ch].did = "broadcast"
            /\ \E c \in cast[ch].snapshot : cast[ch].outcome[c] = "wouldblock")
        => \A d \in cast[ch].snapshot :
            /\ d \in cast[ch].tried
            /\ cast[ch].outcome[d] = "sent" => d \in client_sockets[ch]

\* C19, witness: in the second broadcast of a server the first client's send
\* would block and a client behind it in the vector took the whole frame
C19_SentPastBlockedClient ==
    \E ch \in Chan :
        /\ ticks = 2
        /\ cast[ch].did = "broadcast"
        /\ \E c, d \in cast[ch].snapshot :
            /\ c < d
            /\ cast[ch].outcome[c] = "wouldblock"
            /\ cast[ch].outcome[d] = "sent"
            /\ d \in cast[ch].tried

\* C20: on either server a client whose send would block stays in the client
\* set, and only a client whose send failed fatally is removed.
C20_BlockedClientKept ==
    \A ch \in Chan :
        cast[ch].did = "broadcast" =>
            \A c \in cast[ch].snapshot :
                /\ cast[ch].outcome[c] = "wouldblock" => c \in client_sockets[ch]
                /\ c \notin client_sockets[ch] => cast[ch].outcome[c] = "fatal"

\* A byte stream made of whole documents: object, newline, object, newline, ...
WholeDocuments(bytes) ==
    /\ Len(bytes) % 2 = 0
    /\ \A i \in 1..Len(bytes) : (bytes[i].char = "\n") <=> (i % 2 = 0)

\* C21: the bytes a TCP telemetry client has received are a concatenation of
\* complete JSON documents, each ending in a newline, also when a send is
\* partial and the next send would block.
C21_WholeDocumentsOnly ==
    \A c \in DOMAIN wire : WholeDocuments(wire[c])

\* C22: when TCPServerInterface::Stop has returned, the listening socket is
\* closed, the accept thread and the command thread have terminated, the
\* client set is empty and every data-client socket ever accepted has been
\* closed, however Stop interleaves with an accept in ServerLoop.
C22_TcpStopLeavesNothing ==
    (phase \in {"shutdown", "delete"} /\ pc = "shm_cleanup") =>
        /\ tcp_server.server_socket = "invalid"
        /\ tcp_server.server_thread = "none"
        /\ tcp_server.command_thread = "none"
        /\ client_sockets["tcp"] = {}
        /\ closed["tcp"] = 1..conns["tcp"]

\* C23: once Shutdown has been called every server thread eventually exits
\* and Shutdown (with the delete that follows it) eventually returns, whatever
\* the connected clients do.
C23_ShutdownReturns == (phase = "shutdown") ~> (g_bridge = "null")


\* The header-level reading of an upgrade request: a header of that name, in
\* any letter case, with one of the values
HasHeader(request, names, values) ==
    \E i \in DOMAIN request : request[i].name \in names /\ request[i].value \in values
UpgradeHeadersPresent(request) ==
    /\ HasHeader(request, {"Upgrade", "upgrade", "UPGRADE"},
                 {"websocket", "WebSocket", "WEBSOCKET"})
    /\ HasHeader(request, {"Connection", "connection", "CONNECTION"},
                 {"Upgrade", "upgrade", "UPGRADE"})
    /\ \E i \in DOMAIN request :
        request[i].name \in {"Sec-WebSocket-Key", "sec-websocket-key", "SEC-WEBSOCKET-KEY"}

\* The WebSocket clients that were sent telemetry or had a frame processed
WsServed ==
    client_sockets["ws"] \cup cast["ws"].tried \cup {c \in DOMAIN wsLog : wsLog[c] # <<>>}

C25_UnmaskedNeverEnqueued ==
    \A c \in DOMAIN wsLog : \A i \in DOMAIN wsLog[c] :
        ~wsSent[c][i].masked => wsLog[c][i].enq = <<>>

\* The bytes the server has received from the client
RECURSIVE TotalBytes(_)
TotalBytes(frames) ==
    IF frames = <<>> THEN 0 ELSE Len(Encode(frames[1])) + TotalBytes(Tail(frames))
Received(c) ==
    TotalBytes(wsSent[c]) - Len(SelectSeq(inflight[c], LAMBDA b : b # Eof))
\* How many of the frames are complete in the first n bytes of their stream
RECURSIVE CompleteFrames(_, _)
CompleteFrames(frames, n) ==
    IF frames = <<>> \/ Len(Encode(frames[1])) > n THEN 0
    ELSE 1 + CompleteFrames(Tail(frames), n - Len(Encode(frames[1])))
\* The pong frame that answers a ping with that payload
PongFor(payload) == Encode(Frame(TRUE, OpPong, FALSE, <<0, 0, 0, 0>>, 0, payload))
\* The number of command strings enqueued from all the clients' frames
RECURSIVE EnqueuedBy(_)
EnqueuedBy(clients) ==
    IF clients = {} THEN 0
    ELSE LET c == CHOOSE c \in clients : TRUE
         IN Len(Enqueued(wsLog[c])) + EnqueuedBy(clients \ {c})

C28_RegistryLookupsAgree ==
    /\ \A n, m \in DOMAIN NameToIndex : NameToIndex[n] = NameToIndex[m] => n = m
    /\ \A i \in DOMAIN lookups :
        lookups[i].index = IF lookups[i].name \in DOMAIN NameToIndex
                           THEN NameToIndex[lookups[i].name]
                           ELSE 0 - 1

\* clamp(n, 0, 1) on tenths
ClampUnit(n) == IF n < 0 THEN 0 ELSE IF n > One THEN One ELSE n
\* A well-formed command that names a registered variable whose flag is step
StepCommand(c) == c.kind = "ok" /\ c.var \in RegistryNames /\ DeclaredFlag(c.var) = "Step"
\* The named fields after the commands: each step command in turn adds its
\* value to its variable and clamps, the other commands change nothing
RECURSIVE FieldsStepped(_, _)
FieldsStepped(f, cmds) ==
    IF cmds = <<>> THEN f
    ELSE IF StepCommand(cmds[1])
    THEN FieldsStepped([f EXCEPT ![TargetOf(cmds[1].var)] =
                            Fin(ClampUnit(f[TargetOf(cmds[1].var)][2] + cmds[1].val[2]))],
                       Tail(cmds))
    ELSE FieldsStepped(f, Tail(cmds))
\* The variables the commands step
Stepped(cmds) == {TargetOf(cmds[i].var) : i \in {j \in DOMAIN cmds : StepCommand(cmds[j])}}

\* C29: when the command step of a tick is over, every step command drained in
\* the tick has its message, with its value, among the messages of the tick;
\* each stepped variable holds clamp(old + d, 0, 1), command after command, in
\* its named field and in its array slot, and every other field and slot is as
\* UpdateData left it; the tick then appends the messages to the host output
C29_StepCommandsAppliedInTick ==
    /\ [](pc = "finish" =>
            /\ \A i \in DOMAIN commands :
                StepCommand(commands[i]) =>
                    \E j \in DOMAIN command_messages :
                        /\ command_messages[j].src = commands[i].src
                        /\ command_messages[j].id = commands[i].var
                        /\ command_messages[j].val = commands[i].val
                        /\ command_messages[j].flag = "Step"
            /\ fields = FieldsStepped(atUpdateEnd[1], commands)
            /\ \A v \in VarIndex :
                all_variables[v] = IF v \in Stepped(commands) THEN fields[v]
                                   ELSE atUpdateEnd[2][v])
    /\ [][pc = "finish" /\ pc' # "finish" =>
            /\ hostOut' = hostOut \o Tags(command_messages)
            /\ sent_num' = Len(command_messages)
            /\ <<fields', all_variables'>> = <<fields, all_variables>>]_vars

\* The tick that follows a tick that opened the left door to 0.6 has opened it
\* by 0.6 again, up to the limit, and has passed a throttle command on
C29_DoorOpenedToTheLimit ==
    /\ pc = "finish"
    /\ atUpdateEnd[1]["C172_LEFT_DOOR"] = Fin(6)
    /\ fields["C172_LEFT_DOOR"] = Fin(One)
    /\ \E i, k \in DOMAIN commands :
        /\ commands[i] = [CmdLeftDoor EXCEPT !.src = commands[i].src]
        /\ commands[k].var = IdThrottle

\* The bytes of a field before its first terminator
FieldString(bytes) == SubSeq(bytes, 1, Terminator(bytes) - 1)
\* A byte as a printable one: itself, or a space
Printable(byte) == IF byte >= 32 /\ byte # 127 THEN byte ELSE 32

\* C30: after a string message is applied, the last byte of the field is 0 and
\* no byte before the terminator is below 32 or equal to 127; and when the
\* string is at least as long as the field, the field holds its first bytes,
\* one less than the capacity
C30_StringsTerminatedSanitizedTruncated ==
    (lastString.n > 0 /\ lastString.dtype \in {"String", "String8"} /\ ~lastString.throws) =>
        LET field == aircraft_nearest_airport_id
            incoming == CStr(lastString.val)
        IN /\ field[AirportIdBytes] = 0
           /\ \A i \in 1..(Terminator(field) - 1) : field[i] >= 32 /\ field[i] # 127
           /\ Len(incoming) >= AirportIdBytes =>
                 FieldString(field) = [i \in 1..(AirportIdBytes - 1) |-> Printable(incoming[i])]
\* A string of eight bytes has been applied to the field of eight bytes
C30_LongIdentifierApplied ==
    /\ lastString.n > 0
    /\ lastString.dtype = "String"
    /\ lastString.val = Letters(AirportIdBytes, 0, 0)

\* What the command port owes a connection whose client wrote `written`: one
\* string with all the bytes, up to what the buffer holds, or nothing
Owed(written) ==
    IF written = <<>> THEN <<>>
    ELSE <<SubSeq(written, 1, IF Len(written) < CommandBufferBytes THEN Len(written)
                              ELSE CommandBufferBytes - 1)>>

\* C31: once the client of a command connection has written its bytes and
\* closed, and the server has closed the connection, exactly one command
\* string with all the bytes (up to the buffer cap) has been enqueued for
\* it, or none if it wrote nothing; and the server closes every connection
\* it has enqueued a command for before it turns to the next
C31_ConnectionBytesAreOneCommand ==
    \A i \in DOMAIN cmdLog :
        /\ (cmdLog[i].closed /\ (i < Len(cmdLog) \/ cmd_client.todo = <<>>))
              => cmdLog[i].enqueued = Owed(cmdLog[i].written)
        /\ i < Len(cmdLog) => cmdLog[i].closed
\* A command written in two segments has been served to the end
C31_TwoSegmentsServed ==
    \E i \in DOMAIN cmdLog :
        /\ cmdLog[i].closed
        /\ cmdLog[i].written = DoorText
        /\ cmd_client.state = "none"

\* C32: every send, recv, accept, select and Sleep was called by a thread
\* that held no mutex
C32_NoMutexAcrossBlockingCalls ==
    \A t \in Threads : syscalls[t].calls # {} => syscalls[t].holding = {}
\* A broadcast has sent to a socket of its snapshot, the send has failed, and
\* a server thread holds the client mutex of that server meanwhile
C32_SendAfterSnapshot ==
    /\ "send" \in syscalls["host"].calls
    /\ \E ch \in Chan : /\ At("host", <<ch, "bc_send">>)
                        /\ local["host"].to_remove # {}
                        /\ mutexes[clients_mutex(ch)] \in Threads \ {"host"}
\* C33: every telemetry document a broadcast has built has data_valid = 1 and
\* carries the update_counter and the values that the UpdateData of the same
\* tick left
C33_DocumentsCarryCommittedSnapshot ==
    \A ch \in Chan :
        cast[ch].did = "broadcast" =>
            /\ cast[ch].payload.data_valid = 1
            /\ cast[ch].payload.update_counter = NextCounter(ctrAtCall)
            /\ atUpdateEnd # NoSnapshot
            /\ cast[ch].payload.all_variables = atUpdateEnd[2]
\* A document with a value of this tick's messages has been sent to a client,
\* and the command step has changed the snapshot since
C33_DocumentThenStepWrite ==
    \E ch \in Chan :
        /\ cast[ch].did = "broadcast"
        /\ \E c \in cast[ch].tried : cast[ch].outcome[c] = "sent"
        /\ cast[ch].payload.all_variables # ZeroSlots
        /\ all_variables # cast[ch].payload.all_variables
\* The writes of an UpdateData call of the read-only build over n messages
SimplifiedWrites(n) ==
    <<"data_valid=0">> \o [i \in 1..n |-> "message"]
        \o <<"timestamp_us", "update_counter", "data_valid=1">>
\* C34: the read-only build's UpdateData writes data_valid = 0, runs the
\* handler of every message, then writes timestamp_us, update_counter + 1
\* and data_valid = 1, in this order; a data field changes only while
\* data_valid = 0, and a message without a handler changes none
C34_SimplifiedUpdateOrder ==
    /\ IsPrefix([i \in 1..Len(writeLog) |-> writeLog[i].what], SimplifiedWrites(num_received))
    /\ \A i \in 1..Len(writeLog) :
          /\ writeLog[i].changed => writeLog[i].valid = 0 /\ writeLog[i].what = "message"
          /\ (writeLog[i].what = "message" /\ writeLog[i].id \notin SimplifiedHandlerIds)
                => ~writeLog[i].changed
          /\ writeLog[i].what \in {"timestamp_us", "update_counter"}
                => msgIdx = num_received /\ writeLog[i].valid = 0
    /\ (pc = "idle" /\ ticks > 0) =>
          /\ Len(writeLog) = Len(SimplifiedWrites(num_received))
          /\ data_valid = 1
          /\ update_counter = NextCounter(ctrAtCall)
    /\ data_valid = 1 => pc \in {"idle", "sr_invalidate"}
\* An UpdateData call has returned after a message changed the altitude and a
\* door message, for which the read-only build has no handler, changed nothing
C34_HandledAndUnhandled ==
    /\ pc = "idle"
    /\ data_valid = 1
    /\ \E i, j \in 1..Len(writeLog) :
          /\ writeLog[i].what = "message" /\ writeLog[i].changed
          /\ writeLog[j].what = "message" /\ writeLog[j].id = IdLeftDoor
\* The bytes of the frames, one after the other
RECURSIVE Stream(_)
Stream(frames) == IF frames = <<>> THEN <<>> ELSE Encode(frames[1]) \o Stream(Tail(frames))
\* C35: whatever pieces the bytes of a client arrived in, the frames
\* processed, with the commands they enqueued and the pongs they caused, are
\* those a single call of the parser finds in all the bytes received, and for
\* an open client the receive buffer holds what that call would leave: the
\* bytes of the incomplete frame, all of them
C35_ChunkingDoesNotMatter ==
    \A c \in DOMAIN wsLog :
        LET whole == ProcessWebSocketFrames(
                         NothingProcessed(SubSeq(Stream(wsSent[c]), 1, Received(c))))
        IN /\ wsLog[c] = whole.frames
           /\ c \in client_sockets["ws"] => recv_buffers[c] = whole.buf
           /\ pushed["ws"] = Len(Enqueued(whole.frames))
\* A text frame that arrived in more than one piece has become a command,
\* and the first bytes of the next frame wait in the receive buffer
C35_FrameCompletedByLaterBytes ==
    \E c \in client_sockets["ws"] :
        /\ Len(wsLog[c]) = 1
        /\ wsLog[c][1].enq = <<DoorText>>
        /\ Len(wsSent[c]) = 2
        /\ Len(recv_buffers[c]) = 1
        /\ ChunkBytes < Len(Encode(wsSent[c][1]))
\* C36: closesocket has been called at most once on every socket handle,
\* listening or client
C36_SocketsClosedOnce ==
    \A s \in DOMAIN sock : sock[s].closes <= 1
\* The steps at which a thread reads or writes the recv_buffers map
BufferSteps ==
    [t \in Threads |->
        CASE t = "host" -> {<<"ws", "bc_remove">>, <<"ws", "stop_clients">>}
          [] t = "ws" -> {<<"ws", "add">>, <<"ws", "append">>, <<"ws", "parse">>,
                          <<"ws", "fc_erase">>, <<"ws", "end_close">>}
          [] OTHER -> {}]
\* No operation on the WebSocket clients is in progress: the host thread is
\* outside Update and Shutdown, the server thread waits in select or has left
Quiescent ==
    /\ tpc["host"] \in {Idle, Stopped}
    /\ tpc["ws"] \in {<<"ws", "select">>, Exited}
    /\ mutexes["ws.clients_mutex"] = "free"
\* C37: when no operation is in progress the sockets that have a receive
\* buffer are those of the client set, and no two threads are at a step that
\* accesses the receive-buffer map at the same time
C37_BuffersFollowClients ==
    /\ Quiescent => DOMAIN recv_buffers = client_sockets["ws"]
    /\ \A t, u \in Threads : (t # u /\ tpc[t] \in BufferSteps[t]) => tpc[u] \notin BufferSteps[u]
\* The threads thread t cannot go on without: the holder of the mutex it is
\* waiting for, the thread it is waiting to join
WaitsFor(t) ==
    {mutexes[e.mutex] : e \in {e \in LockEdges : e.thread = t /\ At(t, e.from)
                                                  /\ mutexes[e.mutex] # "free"}}
    \cup {j.of : j \in {j \in JoinEdges : t = "host" /\ At(t, j.at) /\ ~At(j.of, Exited)}}
\* The mutexes in the one order they are nested in
MutexRank(m) == IF m \in {"tcp.clients_mutex", "ws.clients_mutex"} THEN 1
           ELSE IF m \in {"tcp.command_mutex", "ws.command_mutex"} THEN 2 ELSE 3
\* C38: no set of threads waits for one another (each for a mutex a member
\* holds or to join a member), a thread that waits for a mutex holds only
\* mutexes that come before it in the one nesting order, and the host thread
\* holds no mutex while it waits to join
C38_NoDeadlock ==
    /\ LET waits == [t \in Threads |-> WaitsFor(t)]
       IN \A D \in SUBSET Threads \ {{}} : \E t \in D : waits[t] = {} \/ ~(waits[t] \subseteq D)
    /\ \A e \in LockEdges :
          At(e.thread, e.from) => \A m \in Held(e.thread) : MutexRank(m) < MutexRank(e.mutex)
    /\ \A j \in JoinEdges : At("host", j.at) => Held("host") = {}
\* Stop waits to join the accept thread, which has accepted a client and is
\* about to lock clients_mutex; and elsewhere a thread waits for a mutex
\* another thread holds
C38_JoinWhileJoineeLocks ==
    /\ At("host", <<"tcp", "join_server">>)
    /\ At("tcp server", <<"tcp", "push_lock">>)
    /\ WaitsFor("host") = {"tcp server"}
\* ---------------------------------------------------------------- C39
\* C39: at most one bridge has running server threads: every bridge object
\* other than the one g_bridge points to has been shut down (initialized is
\* false, its mapping is released) and none of its threads is running
NoThreadOf(b) ==
    /\ b.tcp_server.server_thread # "running"
    /\ b.tcp_server.command_thread # "running"
    /\ b.ws_server.server_thread # "running"

C39_OnlyTheGlobalBridgeRuns ==
    \A i \in DOMAIN leaked :
        /\ ~leaked[i].initialized
        /\ leaked[i].pData = "null"
        /\ NoThreadOf(leaked[i])

====
